---- MODULE Spec2Model ----
(***************************************************************************)
(* Execution-span instrumentation of ecosystem-core:                       *)
(*   src/src/execution/spans.ts      span factories and transitions,       *)
(*                                   executeWithSpans,                     *)
(*                                   executeMultiRepoWithSpans             *)
(*   src/src/execution/validator.ts  validateExecutionGraph                *)
(*   src/src/execution/context.ts    ExecutionContext                      *)
(*                                                                         *)
(* JavaScript strings are TLA+ strings.  null is the distinguished string  *)
(* NULL, which no program string of the model equals.  Span ids come from  *)
(* the process-wide generator, modelled by the counter nextId; timestamps  *)
(* are read from the wall clock, modelled by the counter clock.            *)
(***************************************************************************)
EXTENDS Integers, Sequences, FiniteSets, TLC

VARIABLES
    nextId,     \* number of span ids handed out by generateSpanId so far
    clock,      \* the wall clock read by now()
    ctx,        \* the ExecutionContext objects, by handle
    inv,        \* the wrapper invocations in flight or returned, by handle
    drv,        \* what a direct user of ExecutionContext got back, by context
    lib         \* what a direct caller of the exported functions holds

vars == <<nextId, clock, ctx, inv, drv, lib>>

-----------------------------------------------------------------------------
(* Bounds of the model *)

MaxRepos == 3       \* longest list of collaborators given to the multi wrapper
MaxClock == 1       \* the clock takes the values 0..MaxClock
MaxOps == 3         \* operations a direct user performs on one context
MaxSpans == 2       \* spans a third party adds to the graph it has validated
MaxCalls == 2       \* calls a direct user makes to the span transition functions
MaxParRepos == 2    \* collaborators of each of two invocations in flight at once

-----------------------------------------------------------------------------
(* JavaScript values *)

NULL == "<null>"

\* JavaScript truthiness of a string-or-null value.
Truthy(s) == s # NULL /\ s # ""

\* String.prototype.trim on the strings of the model: the only strings made
\* of whitespace alone are "" and " "; no other string of the model starts
\* or ends with whitespace.
trim(s) == IF s \in {"", " "} THEN "" ELSE s

-----------------------------------------------------------------------------
(* spans.ts: factories and transitions *)

generateSpanId(n) == "span-" \o ToString(n)

now(c) == "T" \o ToString(c)

createCoreSpan(id, t, name, parentSpanId) ==
    [ span_id |-> id, parent_span_id |-> parentSpanId, type |-> "core",
      name |-> name, status |-> "running", start_time |-> t,
      end_time |-> NULL, artifacts |-> <<>>, evidence |-> <<>>,
      failure_reasons |-> <<>>, metadata |-> <<>> ]

createRepoSpan(id, t, repoName, parentSpanId) ==
    [ span_id |-> id, parent_span_id |-> parentSpanId, type |-> "repo",
      name |-> "repo:" \o repoName, repo_name |-> repoName,
      status |-> "running", start_time |-> t,
      end_time |-> NULL, artifacts |-> <<>>, evidence |-> <<>>,
      failure_reasons |-> <<>>, metadata |-> <<>> ]

createAgentSpan(id, t, agentName, operation, parentSpanId) ==
    [ span_id |-> id, parent_span_id |-> parentSpanId, type |-> "agent",
      name |-> "agent:" \o agentName \o ":" \o operation,
      agent_name |-> agentName, operation |-> operation,
      status |-> "running", start_time |-> t,
      end_time |-> NULL, artifacts |-> <<>>, evidence |-> <<>>,
      failure_reasons |-> <<>>, metadata |-> <<>> ]

completeSpan(span, t) ==
    [span EXCEPT !.status = "completed", !.end_time = t]

failSpan(span, reasons, t) ==
    [span EXCEPT !.status = "failed", !.end_time = t,
                 !.failure_reasons = @ \o reasons]

\* artifact.produced_at is NULL when the caller left it out.
attachArtifact(span, artifact, t) ==
    [span EXCEPT !.artifacts =
        Append(@, [artifact EXCEPT !.produced_at =
                       IF Truthy(artifact.produced_at)
                       THEN artifact.produced_at ELSE t])]

attachEvidence(span, evidence) ==
    [span EXCEPT !.evidence = Append(@, evidence)]

-----------------------------------------------------------------------------
(* validator.ts *)

\* childrenByParent.get(pid) || []
childrenByParent(spans, pid) ==
    SelectSeq(spans, LAMBDA s : Truthy(s.parent_span_id) /\ s.parent_span_id = pid)

\* spanMap.has(id)
spanMapHas(spans, id) == \E k \in 1..Len(spans) : spans[k].span_id = id

\* coreSpanFailures looking for repo spans under a repo span.
coreSpanFailures_repoUnderRepo(spans, coreSpan) ==
    LET repoChildren == SelectSeq(childrenByParent(spans, coreSpan.span_id),
                                  LAMBDA s : s.type = "repo")
        agentChildren(repoSpan) ==
            SelectSeq(childrenByParent(spans, repoSpan.span_id),
                      LAMBDA s : s.type = "repo")
        noAgents == SelectSeq(repoChildren,
                              LAMBDA r : Len(agentChildren(r)) = 0)
    IN  (IF Len(repoChildren) = 0
         THEN << [ span_id |-> coreSpan.span_id,
                   rule |-> "core_must_have_repo_children",
                   message |-> "Core span \"" \o coreSpan.name
                               \o "\" has no repo-level child spans" ] >>
         ELSE <<>>)
        \o [ k \in 1..Len(noAgents) |->
               [ span_id |-> noAgents[k].span_id,
                 rule |-> "repo_must_have_agent_children",
                 message |-> "Repo span \"" \o noAgents[k].name
                             \o "\" has no agent-level child spans" ] ]

\* coreSpanFailures applying the core rule only to core spans that have
\* some child.
coreSpanFailures_onlyWithChildren(spans, coreSpan) ==
    LET repoChildren == SelectSeq(childrenByParent(spans, coreSpan.span_id),
                                  LAMBDA s : s.type = "repo")
        agentChildren(repoSpan) ==
            SelectSeq(childrenByParent(spans, repoSpan.span_id),
                      LAMBDA s : s.type = "agent")
        noAgents == SelectSeq(repoChildren,
                              LAMBDA r : Len(agentChildren(r)) = 0)
    IN  (IF Len(repoChildren) = 0
            /\ Len(childrenByParent(spans, coreSpan.span_id)) > 0
         THEN << [ span_id |-> coreSpan.span_id,
                   rule |-> "core_must_have_repo_children",
                   message |-> "Core span \"" \o coreSpan.name
                               \o "\" has no repo-level child spans" ] >>
         ELSE <<>>)
        \o [ k \in 1..Len(noAgents) |->
               [ span_id |-> noAgents[k].span_id,
                 rule |-> "repo_must_have_agent_children",
                 message |-> "Repo span \"" \o noAgents[k].name
                             \o "\" has no agent-level child spans" ] ]

\* The failures one core span contributes: the core rule, then the repo rule
\* for each of its repo children in graph order.
coreSpanFailures(spans, coreSpan) ==
    LET repoChildren == SelectSeq(childrenByParent(spans, coreSpan.span_id),
                                  LAMBDA s : s.type = "repo")
        agentChildren(repoSpan) ==
            SelectSeq(childrenByParent(spans, repoSpan.span_id),
                      LAMBDA s : s.type = "agent")
        noAgents == SelectSeq(repoChildren,
                              LAMBDA r : Len(agentChildren(r)) = 0)
    IN  (IF Len(repoChildren) = 0
         THEN << [ span_id |-> coreSpan.span_id,
                   rule |-> "core_must_have_repo_children",
                   message |-> "Core span \"" \o coreSpan.name
                               \o "\" has no repo-level child spans" ] >>
         ELSE <<>>)
        \o [ k \in 1..Len(noAgents) |->
               [ span_id |-> noAgents[k].span_id,
                 rule |-> "repo_must_have_agent_children",
                 message |-> "Repo span \"" \o noAgents[k].name
                             \o "\" has no agent-level child spans" ] ]

hierarchyFailures(spans) ==
    LET coreSpans == SelectSeq(spans, LAMBDA s : s.type = "core")
        RECURSIVE go(_)
        go(k) == IF k > Len(coreSpans) THEN <<>>
                 ELSE coreSpanFailures(spans, coreSpans[k]) \o go(k + 1)
    IN  go(1)

parentReferenceFailures(spans) ==
    LET bad == SelectSeq(spans, LAMBDA s :
                   /\ Truthy(s.parent_span_id)
                   /\ ~spanMapHas(spans, s.parent_span_id)
                   /\ s.type # "core")
    IN  [ k \in 1..Len(bad) |->
            [ span_id |-> bad[k].span_id,
              rule |-> "valid_parent_reference",
              message |-> "Span \"" \o bad[k].name
                          \o "\" references non-existent parent_span_id \""
                          \o bad[k].parent_span_id \o "\"" ] ]

selfReferenceFailures(spans) ==
    LET bad == SelectSeq(spans, LAMBDA s : s.parent_span_id = s.span_id)
    IN  [ k \in 1..Len(bad) |->
            [ span_id |-> bad[k].span_id,
              rule |-> "no_self_reference",
              message |-> "Span \"" \o bad[k].name
                          \o "\" references itself as parent" ] ]

\* evidenceFailures reporting a span once, however many of its entries are
\* empty.
evidenceFailures_oncePerSpan(spans) ==
    LET bad == SelectSeq(spans, LAMBDA s :
                   \E j \in 1..Len(s.evidence) :
                       ~Truthy(s.evidence[j].value) \/ trim(s.evidence[j].value) = "")
    IN  [ k \in 1..Len(bad) |->
            [ span_id |-> bad[k].span_id,
              rule |-> "evidence_must_be_verifiable",
              message |-> "Span \"" \o bad[k].name
                          \o "\" has evidence with empty value" ] ]

evidenceFailures(spans) ==
    LET ofSpan(s) ==
            LET bad == SelectSeq(s.evidence, LAMBDA e :
                           ~Truthy(e.value) \/ trim(e.value) = "")
            IN  [ k \in 1..Len(bad) |->
                    [ span_id |-> s.span_id,
                      rule |-> "evidence_must_be_verifiable",
                      message |-> "Span \"" \o s.name
                                  \o "\" has evidence with empty value" ] ]
        RECURSIVE go(_)
        go(k) == IF k > Len(spans) THEN <<>> ELSE ofSpan(spans[k]) \o go(k + 1)
    IN  go(1)

artifactFailures(spans) ==
    LET ofSpan(s) ==
            LET bad == SelectSeq(s.artifacts, LAMBDA a :
                           ~Truthy(a.id) \/ trim(a.id) = "")
            IN  [ k \in 1..Len(bad) |->
                    [ span_id |-> s.span_id,
                      rule |-> "artifact_must_have_id",
                      message |-> "Span \"" \o s.name
                                  \o "\" has artifact without stable identifier" ] ]
        RECURSIVE go(_)
        go(k) == IF k > Len(spans) THEN <<>> ELSE ofSpan(spans[k]) \o go(k + 1)
    IN  go(1)

\* validateExecutionGraph going on to the other rules when there is no core
\* span.
validateExecutionGraph_noEarlyReturn(spans) ==
    (IF Len(SelectSeq(spans, LAMBDA s : s.type = "core")) = 0
     THEN << [ span_id |-> "graph",
               rule |-> "core_span_required",
               message |-> "Execution graph must contain at least one core-level span" ] >>
     ELSE <<>>)
    \o hierarchyFailures(spans)
    \o parentReferenceFailures(spans)
    \o selfReferenceFailures(spans)
    \o evidenceFailures(spans)
    \o artifactFailures(spans)

validateExecutionGraph(spans) ==
    IF Len(SelectSeq(spans, LAMBDA s : s.type = "core")) = 0
    THEN << [ span_id |-> "graph",
              rule |-> "core_span_required",
              message |-> "Execution graph must contain at least one core-level span" ] >>
    ELSE hierarchyFailures(spans)
         \o parentReferenceFailures(spans)
         \o selfReferenceFailures(spans)
         \o evidenceFailures(spans)
         \o artifactFailures(spans)

isValidExecutionGraph(spans) == Len(validateExecutionGraph(spans)) = 0

-----------------------------------------------------------------------------
(* context.ts: ExecutionContext.  An object is the record                  *)
(* [coreSpan, spans]; coreSpan is the value kept from construction, which  *)
(* the class reads only for its span_id.                                   *)

\* constructor(coreName, parentSpanId)
ExecutionContext(id, t, coreName, parentSpanId) ==
    LET coreSpan == createCoreSpan(id, t, coreName, parentSpanId)
    IN  [ coreSpan |-> coreSpan, spans |-> << coreSpan >> ]

getInvocationContext(c) ==
    [ parent_span_id |-> c.coreSpan.span_id, core_span_id |-> c.coreSpan.span_id ]

\* this.spans.findIndex(s => s.span_id === spanId), 0 standing for -1
findIndex(spans, spanId) ==
    IF \E k \in 1..Len(spans) : spans[k].span_id = spanId
    THEN CHOOSE k \in 1..Len(spans) :
            /\ spans[k].span_id = spanId
            /\ \A j \in 1..(k - 1) : spans[j].span_id # spanId
    ELSE 0

\* The spans an updater may be handed.
spansOf(c) == { c.spans[k] : k \in 1..Len(c.spans) }

\* updateSpan replacing every entry that has the id.
updateSpan_everyMatch(c, spanId, updater) ==
    [c EXCEPT !.spans = [ k \in 1..Len(c.spans) |->
                            IF c.spans[k].span_id = spanId
                            THEN updater[c.spans[k]] ELSE c.spans[k] ]]

\* updater is the function from a stored span to its replacement.
updateSpan(c, spanId, updater) ==
    LET index == findIndex(c.spans, spanId)
    IN  IF index # 0
        THEN [c EXCEPT !.spans[index] = updater[c.spans[index]]]
        ELSE c

startRepoSpan(c, id, t, repoName) ==
    [c EXCEPT !.spans = Append(@, createRepoSpan(id, t, repoName, c.coreSpan.span_id))]

startAgentSpan(c, id, t, parentRepoSpanId, agentName, operation) ==
    [c EXCEPT !.spans =
        Append(@, createAgentSpan(id, t, agentName, operation, parentRepoSpanId))]

completeRepoSpan(c, spanId, t) ==
    updateSpan(c, spanId, [s \in spansOf(c) |-> completeSpan(s, t)])

failRepoSpan(c, spanId, reasons, t) ==
    updateSpan(c, spanId, [s \in spansOf(c) |-> failSpan(s, reasons, t)])

completeAgentSpan(c, spanId, t) ==
    updateSpan(c, spanId, [s \in spansOf(c) |-> completeSpan(s, t)])

failAgentSpan(c, spanId, reasons, t) ==
    updateSpan(c, spanId, [s \in spansOf(c) |-> failSpan(s, reasons, t)])

ingestRepoSpans(c, spans) ==
    [c EXCEPT !.spans = @ \o spans]

attachArtifactToSpan(c, spanId, artifact, t) ==
    updateSpan(c, spanId, [s \in spansOf(c) |->
        [s EXCEPT !.artifacts =
            Append(@, [ id |-> artifact.id, type |-> artifact.type,
                        name |-> artifact.name, content |-> artifact.content,
                        produced_at |-> t ])]])

attachEvidenceToSpan(c, spanId, evidence) ==
    updateSpan(c, spanId, [s \in spansOf(c) |-> [s EXCEPT !.evidence = Append(@, evidence)]])

\* `[${f.rule}] ${f.message}`
formatValidationFailure(f) == "[" \o f.rule \o "] " \o f.message

\* failedChildren that looks at agent spans only.
failedChildren_agentsOnly(c) ==
    SelectSeq(c.spans, LAMBDA s : s.type = "agent" /\ s.status = "failed")

\* this.spans.filter(s => s.span_id !== this.coreSpan.span_id && s.status === 'failed')
failedChildren(c) ==
    SelectSeq(c.spans, LAMBDA s :
        s.span_id # c.coreSpan.span_id /\ s.status = "failed")

\* The reasons finalize collects for the core span.
coreFailureReasons(c) ==
    LET validationFailures == validateExecutionGraph(c.spans)
    IN  [ k \in 1..Len(validationFailures) |->
            formatValidationFailure(validationFailures[k]) ]
        \o (IF Len(failedChildren(c)) > 0
            THEN << ToString(Len(failedChildren(c))) \o " child span(s) failed" >>
            ELSE <<>>)

\* finalize(operationResult): the context it leaves and the result it
\* returns.  h is the handle of the context, whose spans array the returned
\* execution_graph refers to.
finalize(c, h, operationResult, t) ==
    LET reasons == coreFailureReasons(c)
        success == Len(reasons) = 0
    IN  [ ctx |-> IF success
                  THEN updateSpan(c, c.coreSpan.span_id, [s \in spansOf(c) |-> completeSpan(s, t)])
                  ELSE updateSpan(c, c.coreSpan.span_id, [s \in spansOf(c) |-> failSpan(s, reasons, t)]),
          result |-> [ success |-> success,
                       core_span_id |-> c.coreSpan.span_id,
                       execution_graph |-> h,
                       validation_failures |-> validateExecutionGraph(c.spans),
                       failure_reasons |-> reasons,
                       result |-> operationResult ] ]

\* The spans a CoreExecutionResult shows: execution_graph.spans is the
\* context's own array.
GraphOf(r) == ctx[r.execution_graph].spans

-----------------------------------------------------------------------------
(* What callers hand to the wrappers *)

\* lib when nobody calls the exported functions directly.
NoCall == [ use |-> "none" ]

\* A caller-supplied fn is what it does when called: it resolves with a
\* value, or it throws (or rejects with) an Error or a value that is no Error.
Resolves(v) == [ kind |-> "resolve", value |-> v, isError |-> FALSE, message |-> NULL ]
ThrowsError(m) == [ kind |-> "throw", value |-> NULL, isError |-> TRUE, message |-> m ]
ThrowsValue(v) == [ kind |-> "throw", value |-> v, isError |-> FALSE, message |-> NULL ]

\* The {repoName, agentName, operation, fn} tuples callers draw from.
Collaborators ==
    { [ repoName |-> "analytics", agentName |-> "analytics-agent",
        operation |-> "get_metrics", fn |-> Resolves("metrics") ],
      [ repoName |-> "marketplace", agentName |-> "marketplace-agent",
        operation |-> "list_artifacts", fn |-> Resolves("items") ],
      [ repoName |-> "benchmark", agentName |-> "benchmark-agent",
        operation |-> "list_benchmarks", fn |-> Resolves(NULL) ],
      [ repoName |-> "marketplace", agentName |-> "marketplace-agent",
        operation |-> "list_artifacts", fn |-> ThrowsError("Connection refused") ],
      [ repoName |-> "benchmark", agentName |-> "benchmark-agent",
        operation |-> "list_benchmarks", fn |-> ThrowsValue(NULL) ] }

\* The aggregators callers draw from: one that builds a payload out of the
\* results in the order it is given them, and one that throws.
Aggregators == { "join", "throws" }

CoreNames == { "ecosystem-core" }
ParentSpanIds == { NULL, "engine-parent-001" }

\* String(value)
String(v) == IF v = NULL THEN "null" ELSE v

\* The payload the "join" aggregator returns for results.
joinResults(results) ==
    LET RECURSIVE go(_)
        go(k) == IF k > Len(results) THEN ""
                 ELSE (IF k > 1 THEN "," ELSE "") \o String(results[k]) \o go(k + 1)
    IN  "[" \o go(1) \o "]"

\* Sequences over S of length at most n.
SeqUpTo(S, n) == UNION { [1..k -> S] : k \in 0..n }

-----------------------------------------------------------------------------
(* spans.ts: the operation wrappers.  An invocation is the record of its   *)
(* arguments, its locals and its position:                                 *)
(*   "called"    the caller made the call, nothing ran yet                 *)
(*   "loop"      multi wrapper, at the head of the for loop                *)
(*   "await"     suspended at `await fn()` of entry idx                    *)
(*   "finalize"  about to return ctx.finalize(...)                         *)
(*   "returned"  the promise resolved with ret                             *)
(*   "threw"     the promise rejected: an exception left the wrapper       *)
(* calls, settles and aggregatorCalls count what the invocation did to the *)
(* callables it was given.                                                 *)

\* A local that holds no span yet, and a promise that holds no result yet.
NoSpan == [ span_id |-> NULL ]
NoResult == [ success |-> FALSE ]

Invocation(kind, coreName, parentSpanId, repos, aggregator) ==
    [ kind |-> kind, coreName |-> coreName, parentSpanId |-> parentSpanId,
      repos |-> repos, aggregator |-> aggregator,
      pc |-> "called", ctx |-> 0, idx |-> 1,
      repoSpan |-> NoSpan, agentSpan |-> NoSpan,
      results |-> <<>>, hasFailure |-> FALSE, operationResult |-> NULL,
      ret |-> NoResult,
      calls |-> [k \in 1..Len(repos) |-> 0],
      settles |-> [k \in 1..Len(repos) |-> 0],
      aggregatorCalls |-> 0 ]

\* error instanceof Error ? error.message : String(error)
errorMessage(error) ==
    IF error.isError THEN error.message ELSE String(error.value)

\* The Evidence entry both wrappers attach to the agent span on success.
completionEvidence(repo, agentSpanId) ==
    [ type |-> "id",
      value |-> repo.repoName \o ":" \o repo.operation \o ":" \o agentSpanId,
      description |-> "Completed " \o repo.operation \o " via " \o repo.agentName ]

\* openSpans that records the agent span before the repo span.
openSpans_agentFirst(c, n, t, repo) ==
    LET repoSpan == createRepoSpan(generateSpanId(n), t, repo.repoName,
                                   c.coreSpan.span_id)
        agentSpan == createAgentSpan(generateSpanId(n + 1), t, repo.agentName,
                                     repo.operation, repoSpan.span_id)
    IN  [ ctx |-> [c EXCEPT !.spans = @ \o << agentSpan, repoSpan >>],
          repoSpan |-> repoSpan, agentSpan |-> agentSpan ]

\* repoSpan = ctx.startRepoSpan(...); agentSpan = ctx.startAgentSpan(...),
\* the two ids taken from the generator in that order, n being the next one.
openSpans(c, n, t, repo) ==
    LET repoSpan == createRepoSpan(generateSpanId(n), t, repo.repoName,
                                   c.coreSpan.span_id)
        agentSpan == createAgentSpan(generateSpanId(n + 1), t, repo.agentName,
                                     repo.operation, repoSpan.span_id)
    IN  [ ctx |-> startAgentSpan(
                      startRepoSpan(c, generateSpanId(n), t, repo.repoName),
                      generateSpanId(n + 1), t, repoSpan.span_id,
                      repo.agentName, repo.operation),
          repoSpan |-> repoSpan, agentSpan |-> agentSpan ]

\* singleTry that leaves the repo span open.
singleTry_repoLeftRunning(c, w, value, t) ==
    [ ctx |-> completeAgentSpan(
                  attachEvidenceToSpan(c, w.agentSpan.span_id,
                      completionEvidence(w.repos[1], w.agentSpan.span_id)),
                  w.agentSpan.span_id, t),
      inv |-> [w EXCEPT !.operationResult = value, !.pc = "finalize"] ]

\* executeWithSpans, the try block from the point fn resolved with value:
\* the context and the invocation it leaves.
\* Its three statements each act on the context the one before it left.
singleTry(c, w, value, t) ==
    LET evidenced == { attachEvidenceToSpan(c, w.agentSpan.span_id,
                           completionEvidence(w.repos[1], w.agentSpan.span_id)) }
        agentDone == { completeAgentSpan(c1, w.agentSpan.span_id, t) : c1 \in evidenced }
        repoDone == { completeRepoSpan(c2, w.repoSpan.span_id, t) : c2 \in agentDone }
    IN  [ ctx |-> CHOOSE c3 \in repoDone : TRUE,
          inv |-> [w EXCEPT !.operationResult = value, !.pc = "finalize"] ]

\* singleCatch that copies the bare message onto the repo span.
singleCatch_noPrefix(c, w, error, t) ==
    [ ctx |-> failRepoSpan(
                  failAgentSpan(c, w.agentSpan.span_id, << errorMessage(error) >>, t),
                  w.repoSpan.span_id, << errorMessage(error) >>, t),
      inv |-> [w EXCEPT !.pc = "finalize"] ]

\* executeWithSpans, the catch block: failAgentSpan, then failRepoSpan on
\* the context it left.
singleCatch(c, w, error, t) ==
    LET agentFailed == { failAgentSpan(c, w.agentSpan.span_id,
                                       << errorMessage(error) >>, t) }
        repoFailed == { failRepoSpan(c1, w.repoSpan.span_id,
                                     << "Agent \"" \o w.repos[1].agentName
                                        \o "\" failed: " \o errorMessage(error) >>,
                                     t) : c1 \in agentFailed }
    IN  [ ctx |-> CHOOSE c2 \in repoFailed : TRUE,
          inv |-> [w EXCEPT !.pc = "finalize"] ]

\* multiTry that puts the newest result first.
multiTry_prepend(c, w, value, t) ==
    [ ctx |-> completeRepoSpan(
                  completeAgentSpan(
                      attachEvidenceToSpan(c, w.agentSpan.span_id,
                          completionEvidence(w.repos[w.idx], w.agentSpan.span_id)),
                      w.agentSpan.span_id, t),
                  w.repoSpan.span_id, t),
      inv |-> [w EXCEPT !.results = << value >> \o @,
                        !.idx = @ + 1, !.pc = "loop"] ]

\* executeMultiRepoWithSpans, the try block from the point repo.fn resolved:
\* three statements, each acting on the context the one before it left.
multiTry(c, w, value, t) ==
    LET evidenced == { attachEvidenceToSpan(c, w.agentSpan.span_id,
                           completionEvidence(w.repos[w.idx], w.agentSpan.span_id)) }
        agentDone == { completeAgentSpan(c1, w.agentSpan.span_id, t) : c1 \in evidenced }
        repoDone == { completeRepoSpan(c2, w.repoSpan.span_id, t) : c2 \in agentDone }
    IN  [ ctx |-> CHOOSE c3 \in repoDone : TRUE,
          inv |-> [w EXCEPT !.results = Append(@, value),
                            !.idx = @ + 1, !.pc = "loop"] ]

\* multiCatch that rethrows after recording the failure.
multiCatch_rethrow(c, w, error, t) ==
    [ ctx |-> failRepoSpan(
                  failAgentSpan(c, w.agentSpan.span_id, << errorMessage(error) >>, t),
                  w.repoSpan.span_id,
                  << "Agent \"" \o w.repos[w.idx].agentName \o "\" failed: "
                     \o errorMessage(error) >>,
                  t),
      inv |-> [w EXCEPT !.hasFailure = TRUE, !.pc = "threw"] ]

\* multiCatch that fails the agent span only.
multiCatch_agentOnly(c, w, error, t) ==
    [ ctx |-> failAgentSpan(c, w.agentSpan.span_id, << errorMessage(error) >>, t),
      inv |-> [w EXCEPT !.hasFailure = TRUE,
                        !.results = Append(@, NULL),
                        !.idx = @ + 1, !.pc = "loop"] ]

\* multiCatch that leaves the loop.
multiCatch_break(c, w, error, t) ==
    [ ctx |-> failRepoSpan(
                  failAgentSpan(c, w.agentSpan.span_id, << errorMessage(error) >>, t),
                  w.repoSpan.span_id,
                  << "Agent \"" \o w.repos[w.idx].agentName \o "\" failed: "
                     \o errorMessage(error) >>,
                  t),
      inv |-> [w EXCEPT !.hasFailure = TRUE,
                        !.results = Append(@, NULL),
                        !.idx = Len(w.repos) + 1, !.pc = "loop"] ]

\* executeMultiRepoWithSpans, the catch block: failAgentSpan, then
\* failRepoSpan on the context it left.
multiCatch(c, w, error, t) ==
    LET agentFailed == { failAgentSpan(c, w.agentSpan.span_id,
                                       << errorMessage(error) >>, t) }
        repoFailed == { failRepoSpan(c1, w.repoSpan.span_id,
                                     << "Agent \"" \o w.repos[w.idx].agentName
                                        \o "\" failed: " \o errorMessage(error) >>,
                                     t) : c1 \in agentFailed }
    IN  [ ctx |-> CHOOSE c2 \in repoFailed : TRUE,
          inv |-> [w EXCEPT !.hasFailure = TRUE,
                            !.results = Append(@, NULL),
                            !.idx = @ + 1, !.pc = "loop"] ]

\* multiAggregate that aggregates whether or not an entry failed.
multiAggregate_ignoreFailure(w) ==
    [w EXCEPT !.operationResult =
                  IF w.aggregator = "throws" THEN NULL
                  ELSE joinResults(w.results),
              !.aggregatorCalls = @ + 1,
              !.pc = "finalize"]

\* multiAggregate without the try around the aggregator.
multiAggregate_noTry(w) ==
    IF w.hasFailure
    THEN [w EXCEPT !.operationResult = NULL, !.pc = "finalize"]
    ELSE IF w.aggregator = "throws"
         THEN [w EXCEPT !.aggregatorCalls = @ + 1, !.pc = "threw"]
         ELSE [w EXCEPT !.operationResult = joinResults(w.results),
                        !.aggregatorCalls = @ + 1,
                        !.pc = "finalize"]

\* executeMultiRepoWithSpans past the loop: aggregatedResult.
multiAggregate(w) ==
    IF w.hasFailure
    THEN [w EXCEPT !.operationResult = NULL, !.pc = "finalize"]
    ELSE [w EXCEPT !.operationResult =
                       IF w.aggregator = "throws" THEN NULL
                       ELSE joinResults(w.results),
                   !.aggregatorCalls = @ + 1,
                   !.pc = "finalize"]

\* return ctx.finalize(...)
wrapperFinalize(c, w, t) ==
    LET f == finalize(c, w.ctx, w.operationResult, t)
    IN  [ ctx |-> f.ctx,
          inv |-> [w EXCEPT !.ret = f.result, !.pc = "returned"] ]

-----------------------------------------------------------------------------
(* Actions of the wrappers *)

\* executeWithSpans from the call to the first suspension, at `await fn()`.
SingleStart(i) ==
    LET w == inv[i]
        c == ExecutionContext(generateSpanId(nextId), now(clock),
                              w.coreName, w.parentSpanId)
        o == openSpans(c, nextId + 1, now(clock), w.repos[1])
    IN  /\ w.kind = "single"
        /\ w.pc = "called"
        /\ ctx' = Append(ctx, o.ctx)
        /\ inv' = [inv EXCEPT ![i] =
                      [w EXCEPT !.ctx = Len(ctx) + 1,
                                !.repoSpan = o.repoSpan,
                                !.agentSpan = o.agentSpan,
                                !.calls[1] = @ + 1,
                                !.pc = "await"]]
        /\ nextId' = nextId + 3
        /\ UNCHANGED <<lib, clock, drv>>

SingleFnResolved(i) ==
    LET w == inv[i]
        r == singleTry(ctx[w.ctx], [w EXCEPT !.settles[1] = @ + 1],
                       w.repos[1].fn.value, now(clock))
    IN  /\ w.kind = "single"
        /\ w.pc = "await"
        /\ w.repos[1].fn.kind = "resolve"
        /\ ctx' = [ctx EXCEPT ![w.ctx] = r.ctx]
        /\ inv' = [inv EXCEPT ![i] = r.inv]
        /\ UNCHANGED <<lib, nextId, clock, drv>>

SingleFnThrew(i) ==
    LET w == inv[i]
        r == singleCatch(ctx[w.ctx], [w EXCEPT !.settles[1] = @ + 1],
                         w.repos[1].fn, now(clock))
    IN  /\ w.kind = "single"
        /\ w.pc = "await"
        /\ w.repos[1].fn.kind = "throw"
        /\ ctx' = [ctx EXCEPT ![w.ctx] = r.ctx]
        /\ inv' = [inv EXCEPT ![i] = r.inv]
        /\ UNCHANGED <<lib, nextId, clock, drv>>

\* MultiStart that keeps one context for the whole module and hands it to
\* every invocation.
MultiStart_sharedContext(i) ==
    LET w == inv[i]
    IN  /\ w.kind = "multi"
        /\ w.pc = "called"
        /\ IF Len(ctx) = 0
           THEN /\ ctx' = Append(ctx, ExecutionContext(generateSpanId(nextId), now(clock),
                                                      w.coreName, w.parentSpanId))
                /\ nextId' = nextId + 1
           ELSE /\ ctx' = ctx
                /\ nextId' = nextId
        /\ inv' = [inv EXCEPT ![i] = [w EXCEPT !.ctx = 1, !.pc = "loop"]]
        /\ UNCHANGED <<lib, clock, drv>>

\* new ExecutionContext; results = []; hasFailure = false
MultiStart(i) ==
    LET w == inv[i]
    IN  /\ w.kind = "multi"
        /\ w.pc = "called"
        /\ ctx' = Append(ctx, ExecutionContext(generateSpanId(nextId), now(clock),
                                              w.coreName, w.parentSpanId))
        /\ inv' = [inv EXCEPT ![i] = [w EXCEPT !.ctx = Len(ctx) + 1, !.pc = "loop"]]
        /\ nextId' = nextId + 1
        /\ UNCHANGED <<lib, clock, drv>>

\* MultiNextRepo that calls repo.fn without awaiting it.
MultiNextRepo_noAwait(i) ==
    LET w == inv[i]
        o == openSpans(ctx[w.ctx], nextId, now(clock), w.repos[w.idx])
    IN  /\ w.kind = "multi"
        /\ w.pc = "loop"
        /\ w.idx <= Len(w.repos)
        /\ ctx' = [ctx EXCEPT ![w.ctx] = o.ctx]
        /\ inv' = [inv EXCEPT ![i] =
                      [w EXCEPT !.repoSpan = o.repoSpan,
                                !.agentSpan = o.agentSpan,
                                !.calls[w.idx] = @ + 1,
                                !.idx = @ + 1]]
        /\ nextId' = nextId + 2
        /\ UNCHANGED <<lib, clock, drv>>

\* One turn of the for loop up to `await repo.fn()`.
MultiNextRepo(i) ==
    LET w == inv[i]
        o == openSpans(ctx[w.ctx], nextId, now(clock), w.repos[w.idx])
    IN  /\ w.kind = "multi"
        /\ w.pc = "loop"
        /\ w.idx <= Len(w.repos)
        /\ ctx' = [ctx EXCEPT ![w.ctx] = o.ctx]
        /\ inv' = [inv EXCEPT ![i] =
                      [w EXCEPT !.repoSpan = o.repoSpan,
                                !.agentSpan = o.agentSpan,
                                !.calls[w.idx] = @ + 1,
                                !.pc = "await"]]
        /\ nextId' = nextId + 2
        /\ UNCHANGED <<lib, clock, drv>>

MultiFnResolved(i) ==
    LET w == inv[i]
        r == multiTry(ctx[w.ctx], [w EXCEPT !.settles[w.idx] = @ + 1],
                      w.repos[w.idx].fn.value, now(clock))
    IN  /\ w.kind = "multi"
        /\ w.pc = "await"
        /\ w.repos[w.idx].fn.kind = "resolve"
        /\ ctx' = [ctx EXCEPT ![w.ctx] = r.ctx]
        /\ inv' = [inv EXCEPT ![i] = r.inv]
        /\ UNCHANGED <<lib, nextId, clock, drv>>

MultiFnThrew(i) ==
    LET w == inv[i]
        r == multiCatch(ctx[w.ctx], [w EXCEPT !.settles[w.idx] = @ + 1],
                        w.repos[w.idx].fn, now(clock))
    IN  /\ w.kind = "multi"
        /\ w.pc = "await"
        /\ w.repos[w.idx].fn.kind = "throw"
        /\ ctx' = [ctx EXCEPT ![w.ctx] = r.ctx]
        /\ inv' = [inv EXCEPT ![i] = r.inv]
        /\ UNCHANGED <<lib, nextId, clock, drv>>

MultiAggregate(i) ==
    LET w == inv[i]
    IN  /\ w.kind = "multi"
        /\ w.pc = "loop"
        /\ w.idx > Len(w.repos)
        /\ inv' = [inv EXCEPT ![i] = multiAggregate(w)]
        /\ UNCHANGED <<lib, nextId, clock, ctx, drv>>

WrapperFinalize(i) ==
    LET w == inv[i]
        r == wrapperFinalize(ctx[w.ctx], w, now(clock))
    IN  /\ w.pc = "finalize"
        /\ ctx' = [ctx EXCEPT ![w.ctx] = r.ctx]
        /\ inv' = [inv EXCEPT ![i] = r.inv]
        /\ UNCHANGED <<lib, nextId, clock, drv>>

\* Time passes while an invocation is suspended.
Tick ==
    /\ clock < MaxClock
    /\ \E i \in DOMAIN inv : inv[i].pc = "await"
    /\ clock' = clock + 1
    /\ UNCHANGED <<lib, nextId, ctx, inv, drv>>

Init ==
    /\ nextId = 1
    /\ clock = 0
    /\ ctx = <<>>
    /\ drv = <<>>
    /\ lib = NoCall
    /\ \E coreName \in CoreNames, parentSpanId \in ParentSpanIds :
          \/ \E repo \in Collaborators :
                inv = << Invocation("single", coreName, parentSpanId,
                                    << repo >>, "none") >>
          \/ \E repos \in SeqUpTo(Collaborators, MaxRepos),
                aggregator \in Aggregators :
                inv = << Invocation("multi", coreName, parentSpanId,
                                    repos, aggregator) >>

Next ==
    \/ \E i \in DOMAIN inv : SingleStart(i)
    \/ \E i \in DOMAIN inv : SingleFnResolved(i)
    \/ \E i \in DOMAIN inv : SingleFnThrew(i)
    \/ \E i \in DOMAIN inv : MultiStart(i)
    \/ \E i \in DOMAIN inv : MultiNextRepo(i)
    \/ \E i \in DOMAIN inv : MultiFnResolved(i)
    \/ \E i \in DOMAIN inv : MultiFnThrew(i)
    \/ \E i \in DOMAIN inv : MultiAggregate(i)
    \/ \E i \in DOMAIN inv : WrapperFinalize(i)
    \/ Tick

Spec == Init /\ [][Next]_vars

TypeOK ==
    /\ nextId \in Nat
    /\ clock \in 0..MaxClock
    /\ \A i \in DOMAIN inv :
          inv[i].pc \in {"called", "loop", "await", "finalize",
                         "returned", "threw"}

-----------------------------------------------------------------------------
(* Direct use of one ExecutionContext: any sequence of its public methods, *)
(* with any span id the context knows and one it does not.                 *)

RepoNames == { "marketplace" }
AgentNames == { "marketplace-agent" }
Operations == { "list" }
Reasons == { << "Connection timeout" >> }
EvidenceValues == { "", "sha256:9f2c" }
ArtifactIds == { "", "artifact-1" }
OperationResults == { NULL, "payload" }
UnknownSpanId == "no-such-span"

\* The ids a user of context c can name.
SpanIdsOf(c) == { c.spans[k].span_id : k \in 1..Len(c.spans) } \cup { UnknownSpanId }

\* What an instrumentation-aware repo returns in RepoExecutionResult.spans:
\* spans it built with the factories, parented through the InvocationContext.
repoExecutionSpans(c, n, t, outcome) ==
    LET repoSpan == createRepoSpan(generateSpanId(n), t, "benchmark",
                                   getInvocationContext(c).parent_span_id)
        agentSpan == createAgentSpan(generateSpanId(n + 1), t, "benchmark-agent",
                                     "run", repoSpan.span_id)
    IN  CASE outcome = "completed" ->
               << completeSpan(repoSpan, t),
                  completeSpan(attachEvidence(agentSpan,
                      [ type |-> "uri", value |-> "bench://run/1",
                        description |-> "benchmark run" ]), t) >>
          [] outcome = "failed" ->
               << failSpan(repoSpan, << "Agent failed" >>, t),
                  failSpan(agentSpan, << "Out of memory" >>, t) >>
          [] outcome = "no-agent" ->
               << completeSpan(repoSpan, t) >>

CanOperate(h) == drv[h].ops < MaxOps

Operated(h) == [drv EXCEPT ![h].ops = @ + 1]

StartRepoSpan(h) ==
    /\ CanOperate(h)
    /\ \E repoName \in RepoNames :
          ctx' = [ctx EXCEPT ![h] =
                     startRepoSpan(@, generateSpanId(nextId), now(clock), repoName)]
    /\ nextId' = nextId + 1
    /\ drv' = Operated(h)
    /\ UNCHANGED <<lib, clock, inv>>

StartAgentSpan(h) ==
    /\ CanOperate(h)
    /\ \E parentRepoSpanId \in SpanIdsOf(ctx[h]), agentName \in AgentNames,
          operation \in Operations :
          ctx' = [ctx EXCEPT ![h] =
                     startAgentSpan(@, generateSpanId(nextId), now(clock),
                                    parentRepoSpanId, agentName, operation)]
    /\ nextId' = nextId + 1
    /\ drv' = Operated(h)
    /\ UNCHANGED <<lib, clock, inv>>

CompleteRepoSpan(h) ==
    /\ CanOperate(h)
    /\ \E spanId \in SpanIdsOf(ctx[h]) :
          ctx' = [ctx EXCEPT ![h] = completeRepoSpan(@, spanId, now(clock))]
    /\ drv' = Operated(h)
    /\ UNCHANGED <<lib, nextId, clock, inv>>

FailRepoSpan(h) ==
    /\ CanOperate(h)
    /\ \E spanId \in SpanIdsOf(ctx[h]), reasons \in Reasons :
          ctx' = [ctx EXCEPT ![h] = failRepoSpan(@, spanId, reasons, now(clock))]
    /\ drv' = Operated(h)
    /\ UNCHANGED <<lib, nextId, clock, inv>>

CompleteAgentSpan(h) ==
    /\ CanOperate(h)
    /\ \E spanId \in SpanIdsOf(ctx[h]) :
          ctx' = [ctx EXCEPT ![h] = completeAgentSpan(@, spanId, now(clock))]
    /\ drv' = Operated(h)
    /\ UNCHANGED <<lib, nextId, clock, inv>>

FailAgentSpan(h) ==
    /\ CanOperate(h)
    /\ \E spanId \in SpanIdsOf(ctx[h]), reasons \in Reasons :
          ctx' = [ctx EXCEPT ![h] = failAgentSpan(@, spanId, reasons, now(clock))]
    /\ drv' = Operated(h)
    /\ UNCHANGED <<lib, nextId, clock, inv>>

\* A repo is invoked and the spans it returns are ingested, or spans a repo
\* returned before are ingested again.
IngestRepoSpans(h) ==
    /\ CanOperate(h)
    /\ \/ \E outcome \in { "completed", "failed", "no-agent" } :
             LET spans == repoExecutionSpans(ctx[h], nextId, now(clock), outcome)
             IN  /\ ctx' = [ctx EXCEPT ![h] = ingestRepoSpans(@, spans)]
                 /\ drv' = [drv EXCEPT ![h].ops = @ + 1, ![h].repoSpans = spans]
                 /\ nextId' = nextId + 2
       \/ /\ Len(drv[h].repoSpans) > 0
          /\ ctx' = [ctx EXCEPT ![h] = ingestRepoSpans(@, drv[h].repoSpans)]
          /\ drv' = Operated(h)
          /\ nextId' = nextId
    /\ UNCHANGED <<lib, clock, inv>>

AttachArtifactToSpan(h) ==
    /\ CanOperate(h)
    /\ \E spanId \in SpanIdsOf(ctx[h]), id \in ArtifactIds :
          ctx' = [ctx EXCEPT ![h] =
                     attachArtifactToSpan(@, spanId,
                         [ id |-> id, type |-> "report", name |-> "summary",
                           content |-> "..." ], now(clock))]
    /\ drv' = Operated(h)
    /\ UNCHANGED <<lib, nextId, clock, inv>>

AttachEvidenceToSpan(h) ==
    /\ CanOperate(h)
    /\ \E spanId \in SpanIdsOf(ctx[h]), value \in EvidenceValues :
          ctx' = [ctx EXCEPT ![h] =
                     attachEvidenceToSpan(@, spanId,
                         [ type |-> "hash", value |-> value,
                           description |-> "digest" ])]
    /\ drv' = Operated(h)
    /\ UNCHANGED <<lib, nextId, clock, inv>>

\* finalize(operationResult); the user keeps what it returned.
Finalize(h) ==
    /\ CanOperate(h)
    /\ \E operationResult \in OperationResults :
          LET f == finalize(ctx[h], h, operationResult, now(clock))
          IN  /\ ctx' = [ctx EXCEPT ![h] = f.ctx]
              /\ drv' = [drv EXCEPT ![h].ops = @ + 1,
                                    ![h].returned = Append(@, f.result)]
    /\ UNCHANGED <<lib, nextId, clock, inv>>

\* Time passes between two calls.
CtxTick ==
    /\ clock < MaxClock
    /\ DOMAIN drv # {}
    /\ clock' = clock + 1
    /\ UNCHANGED <<lib, nextId, ctx, inv, drv>>

CtxInit ==
    /\ nextId = 2
    /\ clock = 0
    /\ inv = <<>>
    /\ lib = NoCall
    /\ \E coreName \in CoreNames, parentSpanId \in ParentSpanIds :
          ctx = << ExecutionContext(generateSpanId(1), now(0), coreName, parentSpanId) >>
    /\ drv = << [ ops |-> 0, repoSpans |-> <<>>, returned |-> <<>> ] >>

CtxNext ==
    \/ \E h \in DOMAIN drv : StartRepoSpan(h)
    \/ \E h \in DOMAIN drv : StartAgentSpan(h)
    \/ \E h \in DOMAIN drv : CompleteRepoSpan(h)
    \/ \E h \in DOMAIN drv : FailRepoSpan(h)
    \/ \E h \in DOMAIN drv : CompleteAgentSpan(h)
    \/ \E h \in DOMAIN drv : FailAgentSpan(h)
    \/ \E h \in DOMAIN drv : IngestRepoSpans(h)
    \/ \E h \in DOMAIN drv : AttachArtifactToSpan(h)
    \/ \E h \in DOMAIN drv : AttachEvidenceToSpan(h)
    \/ \E h \in DOMAIN drv : Finalize(h)
    \/ CtxTick

CtxSpec == CtxInit /\ [][CtxNext]_vars

-----------------------------------------------------------------------------
(* Properties of the wrappers, under Spec *)

Returned(i) == inv[i].pc = "returned"

IsSingle(i) == inv[i].kind = "single"

IsMulti(i) == inv[i].kind = "multi"

\* The entries of invocation i whose fn throws, as the caller built them.
Throwing(i) == { k \in DOMAIN inv[i].repos : inv[i].repos[k].fn.kind = "throw" }

Terminal == { "completed", "failed" }

ResultFields ==
    { "success", "core_span_id", "execution_graph", "validation_failures",
      "failure_reasons", "result" }

\* C1: no exception thrown by a caller-supplied fn leaves executeWithSpans or
\* executeMultiRepoWithSpans: an invocation never ends by throwing, what it
\* returns is a CoreExecutionResult, and when at least one fn threw that
\* result has success = false, at least one failure reason and at least one
\* span in its graph.
C1_NoExceptionEscapes ==
    \A i \in DOMAIN inv :
        /\ inv[i].pc # "threw"
        /\ Returned(i) =>
              /\ DOMAIN inv[i].ret = ResultFields
              /\ Throwing(i) # {} =>
                    /\ inv[i].ret.success = FALSE
                    /\ Len(inv[i].ret.failure_reasons) > 0
                    /\ Len(GraphOf(inv[i].ret)) > 0

\* A multi-repo invocation returned although one of several fns threw.
C1_Witness ==
    \E i \in DOMAIN inv :
        /\ IsMulti(i) /\ Returned(i)
        /\ Throwing(i) # {} /\ Throwing(i) # DOMAIN inv[i].repos
        /\ inv[i].ret.success = FALSE

\* C2: the graph executeMultiRepoWithSpans returns for n collaborators has
\* exactly 1 + 2n spans, one core, n repo and n agent, whichever of them
\* threw; the repo and agent span of a collaborator that resolved are both
\* completed, those of one that threw are both failed.
C2_AllSpansReturned ==
    \A i \in DOMAIN inv :
        (IsMulti(i) /\ Returned(i)) =>
            LET spans == GraphOf(inv[i].ret)
                n == Len(inv[i].repos)
                ofType(ty) == { j \in 1..Len(spans) : spans[j].type = ty }
            IN  /\ Len(spans) = 1 + 2 * n
                /\ Cardinality(ofType("core")) = 1
                /\ Cardinality(ofType("repo")) = n
                /\ Cardinality(ofType("agent")) = n
                /\ \A k \in 1..n :
                      LET want == IF k \in Throwing(i) THEN "failed" ELSE "completed"
                      IN  /\ spans[2 * k].status = want
                          /\ spans[2 * k + 1].status = want

\* Three collaborators, exactly one of which threw: 7 spans come back.
C2_Witness ==
    \E i \in DOMAIN inv :
        /\ IsMulti(i) /\ Returned(i)
        /\ Len(inv[i].repos) = 3
        /\ Cardinality(Throwing(i)) = 1
        /\ Len(GraphOf(inv[i].ret)) = 7

\* C3: when fn resolves, executeWithSpans returns success = true, fn's value
\* as result, no validation failure and a graph of exactly three spans, the
\* core, a repo whose parent is the core and an agent whose parent is the
\* repo, all completed, the agent carrying exactly one Evidence entry, of
\* type id.
C3_SingleSuccess ==
    \A i \in DOMAIN inv :
        (IsSingle(i) /\ Returned(i) /\ Throwing(i) = {}) =>
            LET r == inv[i].ret
                spans == GraphOf(r)
            IN  /\ r.success = TRUE
                /\ r.result = inv[i].repos[1].fn.value
                /\ Len(r.validation_failures) = 0
                /\ Len(spans) = 3
                /\ spans[1].type = "core" /\ spans[1].span_id = r.core_span_id
                /\ spans[2].type = "repo" /\ spans[2].parent_span_id = spans[1].span_id
                /\ spans[3].type = "agent" /\ spans[3].parent_span_id = spans[2].span_id
                /\ \A j \in 1..3 : spans[j].status = "completed"
                /\ Len(spans[3].evidence) = 1
                /\ spans[3].evidence[1].type = "id"

\* executeWithSpans returned a payload that is not null.
C3_Witness ==
    \E i \in DOMAIN inv :
        /\ IsSingle(i) /\ Returned(i) /\ Throwing(i) = {}
        /\ inv[i].ret.result = "metrics"
        /\ inv[i].ret.success = TRUE

\* C4: when fn throws an Error with message m, executeWithSpans returns
\* success = false and a null result; the agent span is failed with
\* failure_reasons exactly [m] and carries no Evidence, the repo span is
\* failed with the one reason `Agent "<agentName>" failed: <m>`, and the core
\* span is failed.
C4_SingleFailure ==
    \A i \in DOMAIN inv :
        (IsSingle(i) /\ Returned(i) /\ inv[i].repos[1].fn.kind = "throw"
            /\ inv[i].repos[1].fn.isError) =>
            LET r == inv[i].ret
                spans == GraphOf(r)
                m == inv[i].repos[1].fn.message
            IN  /\ r.success = FALSE
                /\ r.result = NULL
                /\ spans[3].type = "agent" /\ spans[3].status = "failed"
                /\ spans[3].failure_reasons = << m >>
                /\ spans[3].evidence = <<>>
                /\ spans[2].type = "repo" /\ spans[2].status = "failed"
                /\ spans[2].failure_reasons =
                      << "Agent \"" \o inv[i].repos[1].agentName \o "\" failed: " \o m >>
                /\ spans[1].type = "core" /\ spans[1].status = "failed"

\* executeWithSpans returned after fn threw Error("Connection refused").
C4_Witness ==
    \E i \in DOMAIN inv :
        /\ IsSingle(i) /\ Returned(i)
        /\ inv[i].repos[1].fn = ThrowsError("Connection refused")
        /\ GraphOf(inv[i].ret)[3].failure_reasons = << "Connection refused" >>

\* C5: a collaborator that throws does not abort the others: no fn is ever
\* called twice, and when executeMultiRepoWithSpans returns every entry's fn
\* was called exactly once and a repo span and an agent span were opened for
\* every entry, those after the first failing one included.
C5_FailureDoesNotAbort ==
    \A i \in DOMAIN inv :
        IsMulti(i) =>
            /\ \A k \in DOMAIN inv[i].repos : inv[i].calls[k] <= 1
            /\ Returned(i) =>
                  \A k \in DOMAIN inv[i].repos :
                      /\ inv[i].calls[k] = 1
                      /\ Len(GraphOf(inv[i].ret)) >= 2 * k + 1
                      /\ GraphOf(inv[i].ret)[2 * k].repo_name = inv[i].repos[k].repoName
                      /\ GraphOf(inv[i].ret)[2 * k + 1].operation = inv[i].repos[k].operation

\* The first of three collaborators threw and the last one was still run.
C5_Witness ==
    \E i \in DOMAIN inv :
        /\ IsMulti(i) /\ Returned(i)
        /\ Len(inv[i].repos) = 3
        /\ 1 \in Throwing(i)
        /\ inv[i].calls[3] = 1
        /\ GraphOf(inv[i].ret)[7].status \in Terminal

\* C6: within one executeMultiRepoWithSpans invocation the collaborators run
\* one after the other in the order supplied: at most one fn is in flight at
\* any time; the spans of entry k exist only once fn of entry k - 1 settled
\* and both spans of entry k - 1 are terminal; the context lists the core
\* span, then the (repo, agent) pair of each entry in the order of the list.
C6_Sequential ==
    \A i \in DOMAIN inv :
        (IsMulti(i) /\ inv[i].ctx # 0) =>
            LET w == inv[i]
                spans == ctx[w.ctx].spans
            IN  /\ Cardinality({ k \in DOMAIN w.repos : w.calls[k] > w.settles[k] }) <= 1
                /\ \A k \in DOMAIN w.repos : w.calls[k] - w.settles[k] \in {0, 1}
                /\ spans[1].type = "core"
                /\ \A k \in DOMAIN w.repos :
                      Len(spans) >= 2 * k =>
                          /\ Len(spans) >= 2 * k + 1
                          /\ w.calls[k] = 1
                          /\ spans[2 * k].type = "repo"
                          /\ spans[2 * k].repo_name = w.repos[k].repoName
                          /\ spans[2 * k + 1].type = "agent"
                          /\ spans[2 * k + 1].agent_name = w.repos[k].agentName
                          /\ spans[2 * k + 1].operation = w.repos[k].operation
                          /\ spans[2 * k + 1].parent_span_id = spans[2 * k].span_id
                          /\ k > 1 =>
                                /\ w.settles[k - 1] = 1
                                /\ spans[2 * k - 2].status \in Terminal
                                /\ spans[2 * k - 1].status \in Terminal

\* The second of two different collaborators is in flight, the first settled.
C6_Witness ==
    \E i \in DOMAIN inv :
        /\ IsMulti(i) /\ inv[i].pc = "await" /\ inv[i].idx = 2
        /\ inv[i].repos[1].repoName # inv[i].repos[2].repoName
        /\ inv[i].settles[1] = 1 /\ inv[i].calls[2] = 1 /\ inv[i].settles[2] = 0

\* The results of the collaborators of invocation i, in the order supplied.
SuppliedResults(i) == [ k \in 1..Len(inv[i].repos) |-> inv[i].repos[k].fn.value ]

\* C7, as stated: if every collaborator passed to executeMultiRepoWithSpans
\* resolves, the wrapper returns success = true and the aggregator's return
\* value for the results in the order supplied.
C7_AsStated ==
    \A i \in DOMAIN inv :
        (IsMulti(i) /\ Returned(i) /\ Throwing(i) = {}) =>
            /\ inv[i].ret.success = TRUE
            /\ inv[i].aggregator = "join" =>
                  inv[i].ret.result = joinResults(SuppliedResults(i))

\* C7, amended: if at least one collaborator is passed to
\* executeMultiRepoWithSpans and every one of them resolves, the wrapper
\* returns success = true and, when the aggregator returns, result is the
\* aggregator's return value for the results in the order supplied.
C7_AllResolveNonEmpty ==
    \A i \in DOMAIN inv :
        (IsMulti(i) /\ Returned(i) /\ Throwing(i) = {} /\ Len(inv[i].repos) >= 1) =>
            /\ inv[i].ret.success = TRUE
            /\ inv[i].aggregator = "join" =>
                  inv[i].ret.result = joinResults(SuppliedResults(i))

\* Two collaborators with different results were aggregated in order.
C7_Witness ==
    \E i \in DOMAIN inv :
        /\ IsMulti(i) /\ Returned(i) /\ Throwing(i) = {}
        /\ inv[i].aggregator = "join"
        /\ Len(inv[i].repos) >= 2
        /\ inv[i].repos[1].fn.value # inv[i].repos[2].fn.value
        /\ inv[i].ret.success = TRUE
        /\ inv[i].ret.result = "[metrics,items]"

\* C8: the aggregator is never invoked more than once; when
\* executeMultiRepoWithSpans returns after at least one collaborator threw it
\* was not invoked at all and result is null; it was invoked, once, exactly
\* when no entry failed.
C8_AggregatorOnlyOnSuccess ==
    \A i \in DOMAIN inv :
        IsMulti(i) =>
            /\ inv[i].aggregatorCalls <= 1
            /\ (inv[i].aggregatorCalls = 1 => Throwing(i) = {})
            /\ Returned(i) =>
                  IF Throwing(i) # {}
                  THEN inv[i].aggregatorCalls = 0 /\ inv[i].ret.result = NULL
                  ELSE inv[i].aggregatorCalls = 1

\* A collaborator threw, the others resolved, and the aggregator that would
\* have returned a payload was not called.
C8_Witness ==
    \E i \in DOMAIN inv :
        /\ IsMulti(i) /\ Returned(i)
        /\ inv[i].aggregator = "join"
        /\ Throwing(i) # {} /\ Throwing(i) # DOMAIN inv[i].repos
        /\ inv[i].aggregatorCalls = 0
        /\ inv[i].ret.result = NULL

\* C9: in every CoreExecutionResult returned by executeWithSpans or
\* executeMultiRepoWithSpans, for any list of collaborators, the empty list
\* included, success = false implies that result is null.
C9_FailureHasNoResult ==
    \A i \in DOMAIN inv :
        Returned(i) =>
            (inv[i].ret.success = FALSE => inv[i].ret.result = NULL)

-----------------------------------------------------------------------------
(* Properties of ExecutionContext, under CtxSpec *)

\* The step is a call of finalize on context h.
FinalizeStep(h) == Len(drv'[h].returned) = Len(drv[h].returned) + 1

\* What that call returned.
FinalizeResult(h) == drv'[h].returned[Len(drv'[h].returned)]

\* The number of failed spans of type repo or agent among spans.
FailedNonCore(spans) ==
    Cardinality({ k \in 1..Len(spans) :
                    spans[k].type # "core" /\ spans[k].status = "failed" })

\* C10: finalize returns success = true exactly when the validator reports no
\* failure on the span collection as it stands and no non-core span is
\* failed; failure_reasons is one "[rule] message" entry per validation
\* failure, in the validator's order, followed, only when n > 0, by the one
\* entry "<n> child span(s) failed", n being the number of failed non-core
\* spans; the core span leaves the call completed when success is true and
\* otherwise failed, exactly those reasons having been added to it.
C10_Finalize ==
    [][ \A h \in DOMAIN drv :
          FinalizeStep(h) =>
            LET before == ctx[h].spans
                after == ctx'[h].spans
                r == FinalizeResult(h)
                vf == validateExecutionGraph(before)
                n == FailedNonCore(before)
                expected ==
                    [ k \in 1..Len(vf) |-> "[" \o vf[k].rule \o "] " \o vf[k].message ]
                    \o (IF n > 0 THEN << ToString(n) \o " child span(s) failed" >>
                                 ELSE <<>>)
            IN  /\ r.success = (Len(vf) = 0 /\ n = 0)
                /\ r.validation_failures = vf
                /\ r.failure_reasons = expected
                /\ after[1].span_id = r.core_span_id
                /\ after[1].type = "core"
                /\ r.success => /\ after[1].status = "completed"
                                /\ after[1].failure_reasons = before[1].failure_reasons
                /\ ~r.success => /\ after[1].status = "failed"
                                 /\ after[1].failure_reasons =
                                        before[1].failure_reasons \o expected
                /\ Len(after) = Len(before)
                /\ \A k \in 2..Len(before) : after[k] = before[k]
      ]_vars

\* finalize reported a validation failure and two failed child spans, and
\* the core span holds exactly the reasons it returned.
C10_Witness ==
    \E h \in DOMAIN drv :
        /\ Len(drv[h].returned) = 1
        /\ drv[h].returned[1].success = FALSE
        /\ Len(drv[h].returned[1].validation_failures) = 1
        /\ Len(drv[h].returned[1].failure_reasons) = 2
        /\ drv[h].returned[1].failure_reasons[2] = "2 child span(s) failed"
        /\ ctx[h].spans[1].status = "failed"
        /\ ctx[h].spans[1].failure_reasons = drv[h].returned[1].failure_reasons

\* C11: under any sequence of ExecutionContext operations a span that is
\* running has no end_time, and a span transitions exactly once: once its
\* status is completed or failed, its status and its end_time never change
\* again.
C11_TerminalIsFinal ==
    [][ \A h \in DOMAIN ctx :
          \A k \in 1..Len(ctx[h].spans) :
              /\ ctx'[h].spans[k].status = "running" =>
                    ctx'[h].spans[k].end_time = NULL
              /\ ctx[h].spans[k].status \in Terminal =>
                    /\ ctx'[h].spans[k].status = ctx[h].spans[k].status
                    /\ ctx'[h].spans[k].end_time = ctx[h].spans[k].end_time
      ]_vars

\* C12: in every state reachable by ExecutionContext operations, every span
\* of the collection whose status is not failed has an empty failure_reasons.
C12_ReasonsOnlyWhenFailed ==
    \A h \in DOMAIN ctx :
        \A k \in 1..Len(ctx[h].spans) :
            ctx[h].spans[k].status # "failed" =>
                ctx[h].spans[k].failure_reasons = <<>>

\* C18: in every state reachable by ExecutionContext operations,
\* ingestRepoSpans of externally built spans included, no two entries of the
\* span collection have the same span_id.
C18_UniqueSpanIds ==
    \A h \in DOMAIN ctx :
        \A j, k \in 1..Len(ctx[h].spans) :
            j # k => ctx[h].spans[j].span_id # ctx[h].spans[k].span_id

-----------------------------------------------------------------------------
(* Properties of the wrappers, under Spec (continued) *)

\* The positions of spans that hold the span with this id.
PositionsOf(spans, id) == { j \in 1..Len(spans) : spans[j].span_id = id }

\* C20: in every state of a wrapper's context, and so in every graph a
\* wrapper returns, each span whose parent_span_id names a span of the
\* collection stands at a strictly later position than that parent, and the
\* parent of every non-core span is in the collection.
C20_ParentBeforeChild ==
    \A h \in DOMAIN ctx :
        LET spans == ctx[h].spans
        IN  \A k \in 1..Len(spans) :
                /\ \A j \in PositionsOf(spans, spans[k].parent_span_id) : j < k
                /\ spans[k].type # "core" =>
                      PositionsOf(spans, spans[k].parent_span_id) # {}

\* A returned graph of two collaborators: both repo spans follow the core
\* span and each agent span follows its repo span.
C20_Witness ==
    \E i \in DOMAIN inv :
        /\ IsMulti(i) /\ Returned(i)
        /\ Len(GraphOf(inv[i].ret)) = 5
        /\ PositionsOf(GraphOf(inv[i].ret), GraphOf(inv[i].ret)[5].parent_span_id) = {4}
        /\ PositionsOf(GraphOf(inv[i].ret), GraphOf(inv[i].ret)[4].parent_span_id) = {1}

-----------------------------------------------------------------------------
(* Direct use of validateExecutionGraph and isValidExecutionGraph on a     *)
(* graph built by a third party: nothing, or the core -> repo -> agent     *)
(* chain the wrappers produce, followed by up to MaxSpans spans of any     *)
(* type with any parent_span_id, one of which may carry attachments.       *)

SpanTypes == { "core", "repo", "agent" }

\* The chain: core "c", repo "r" under it, agent "a" under the repo.
wellFormedChain ==
    << completeSpan(createCoreSpan("c", now(0), "ecosystem-core", NULL), now(0)),
       completeSpan(createRepoSpan("r", now(0), "marketplace", "c"), now(0)),
       completeSpan(
           attachEvidence(createAgentSpan("a", now(0), "marketplace-agent", "list", "r"),
                          [ type |-> "id", value |-> "marketplace:list:a",
                            description |-> "Completed list via marketplace-agent" ]),
           now(0)) >>

GraphPrefixes == { <<>>, wellFormedChain }

\* The id of the k-th added span.
addedSpanId(k) == "x" \o ToString(k)

\* The parent_span_id values an added span may have, n spans being added:
\* none, the empty string, an id nobody has, or any id of the graph, its own
\* included.
ParentChoices(n) ==
    { NULL, "", "ghost", "c", "r", "a" } \cup { addedSpanId(k) : k \in 1..n }

\* What the one decorated span carries.
AttachmentKinds ==
    { "empty-evidence", "blank-evidence", "two-empty-evidence", "empty-artifact-id" }

emptyEvidence == [ type |-> "id", value |-> "", description |-> "empty" ]

attachmentsOf(span, kind) ==
    CASE kind = "empty-evidence" -> attachEvidence(span, emptyEvidence)
      [] kind = "blank-evidence" ->
            attachEvidence(span, [ type |-> "uri", value |-> " ",
                                   description |-> "location" ])
      [] kind = "two-empty-evidence" ->
            attachEvidence(
                attachEvidence(
                    attachEvidence(span, emptyEvidence),
                    [ type |-> "id", value |-> "run-17", description |-> "run" ]),
                emptyEvidence)
      [] kind = "empty-artifact-id" ->
            attachArtifact(span, [ id |-> "", type |-> "report", name |-> "summary",
                                   content |-> "...", produced_at |-> NULL ], now(0))
      [] OTHER -> span

\* A span a third party makes with the factory of its type.
addedSpan(type, id, parentSpanId) ==
    CASE type = "core" -> createCoreSpan(id, now(0), "other-core", parentSpanId)
      [] type = "repo" -> createRepoSpan(id, now(0), "benchmark", parentSpanId)
      [] OTHER -> createAgentSpan(id, now(0), "benchmark-agent", "run", parentSpanId)

\* The n added spans; the one at position decorated carries attachments.
addedSpans(n, types, parents, decorated, kind) ==
    [ k \in 1..n |->
        IF k = decorated
        THEN attachmentsOf(addedSpan(types[k], addedSpanId(k), parents[k]), kind)
        ELSE addedSpan(types[k], addedSpanId(k), parents[k]) ]

ValInit ==
    /\ nextId = 1
    /\ clock = 0
    /\ ctx = <<>>
    /\ inv = <<>>
    /\ drv = <<>>
    /\ \E prefix \in GraphPrefixes, n \in 0..MaxSpans :
          \E types \in [1..n -> SpanTypes], parents \in [1..n -> ParentChoices(n)] :
             \/ lib = [ use |-> "validator", pc |-> "built",
                        graph |-> prefix \o addedSpans(n, types, parents, 0, "none"),
                        failures |-> <<>>, valid |-> FALSE ]
             \/ \E decorated \in 1..n, kind \in AttachmentKinds :
                   lib = [ use |-> "validator", pc |-> "built",
                           graph |-> prefix \o addedSpans(n, types, parents, decorated, kind),
                           failures |-> <<>>, valid |-> FALSE ]

\* failures = validateExecutionGraph(graph); valid = isValidExecutionGraph(graph)
Validate ==
    /\ lib.use = "validator"
    /\ lib.pc = "built"
    /\ lib' = [lib EXCEPT !.failures = validateExecutionGraph(lib.graph),
                          !.valid = isValidExecutionGraph(lib.graph),
                          !.pc = "validated"]
    /\ UNCHANGED <<nextId, clock, ctx, inv, drv>>

ValNext == Validate

ValSpec == ValInit /\ [][ValNext]_vars

-----------------------------------------------------------------------------
(* Claims about the validator.                                              *)

Validated == lib.use = "validator" /\ lib.pc = "validated"

SpanSet(g) == { g[k] : k \in 1..Len(g) }
CoreSpansOf(g) == { s \in SpanSet(g) : s.type = "core" }
RepoSpansOf(g) == { s \in SpanSet(g) : s.type = "repo" }
HasChildOfType(g, s, type) ==
    \E c \in SpanSet(g) : c.type = type /\ c.parent_span_id = s.span_id
ParentResolves(g, s) == \E p \in SpanSet(g) : p.span_id = s.parent_span_id
FailuresFor(f, rule, spanId) ==
    { j \in 1..Len(f) : f[j].rule = rule /\ f[j].span_id = spanId }
EvidenceValuesOf(g) ==
    UNION { { s.evidence[j].value : j \in 1..Len(s.evidence) } : s \in SpanSet(g) }
ArtifactIdsOf(g) ==
    UNION { { s.artifacts[j].id : j \in 1..Len(s.artifacts) } : s \in SpanSet(g) }

\* The graphs C13 speaks of.
WellFormedAsStated(g) ==
    /\ CoreSpansOf(g) # {}
    /\ \A c \in CoreSpansOf(g) : HasChildOfType(g, c, "repo")
    /\ \A r \in RepoSpansOf(g) :
          /\ HasChildOfType(g, r, "agent")
          /\ \E c \in CoreSpansOf(g) : c.span_id = r.parent_span_id
    /\ \A s \in SpanSet(g) : s.type # "core" => ParentResolves(g, s)
    /\ \A s \in SpanSet(g) : s.parent_span_id # s.span_id
    /\ "" \notin EvidenceValuesOf(g)
    /\ "" \notin ArtifactIdsOf(g)

NoBlankAttachment(g) ==
    /\ \A v \in EvidenceValuesOf(g) : trim(v) # ""
    /\ \A a \in ArtifactIdsOf(g) : trim(a) # ""

\* C13 as stated: every graph with a core span, whose core spans have repo
\* children, whose repo spans have an agent child and a core parent, whose
\* non-core parents resolve, without self-parents and without an empty
\* Evidence value or Artifact id, is accepted: no failure, and
\* isValidExecutionGraph is true.
C13_AsStated ==
    Validated /\ WellFormedAsStated(lib.graph)
        => Len(lib.failures) = 0 /\ lib.valid

\* C13, amended: the same graphs are accepted when, moreover, no Evidence
\* value or Artifact id consists of whitespace only.
C13_ValidGraphAccepted ==
    Validated /\ WellFormedAsStated(lib.graph) /\ NoBlankAttachment(lib.graph)
        => Len(lib.failures) = 0 /\ lib.valid

C13_Witness ==
    /\ Validated
    /\ WellFormedAsStated(lib.graph) /\ NoBlankAttachment(lib.graph)
    /\ Len(lib.graph) = 5
    /\ lib.graph[4].type = "repo"
    /\ lib.valid

\* C14: a graph without a core span gets exactly one failure, of rule
\* core_span_required, whatever else is wrong with it.
C14_OnlyCoreSpanRequired ==
    Validated /\ CoreSpansOf(lib.graph) = {}
        => Len(lib.failures) = 1 /\ lib.failures[1].rule = "core_span_required"

C14_Witness ==
    /\ Validated
    /\ CoreSpansOf(lib.graph) = {}
    /\ \E s \in SpanSet(lib.graph) : s.parent_span_id = s.span_id
    /\ \E s \in SpanSet(lib.graph) : s.parent_span_id = "ghost"
    /\ "" \in EvidenceValuesOf(lib.graph) \cup ArtifactIdsOf(lib.graph)
    /\ Len(lib.failures) = 1

\* One core_must_have_repo_children failure for each core span without a
\* direct child of type repo, and none for the others.
CoreRulePerCoreSpan ==
    \A c \in CoreSpansOf(lib.graph) :
        Cardinality(FailuresFor(lib.failures, "core_must_have_repo_children", c.span_id))
            = IF HasChildOfType(lib.graph, c, "repo") THEN 0 ELSE 1

SingleBareCore(g) ==
    Len(g) = 1 /\ g[1].type = "core" /\ g[1].evidence = <<>> /\ g[1].artifacts = <<>>

OnlyCoreRuleFailure ==
    /\ Len(lib.failures) = 1
    /\ lib.failures[1].rule = "core_must_have_repo_children"
    /\ lib.failures[1].span_id = lib.graph[1].span_id

\* C15 as stated: a graph of a single core span without evidence and
\* artifacts gets exactly one failure, core_must_have_repo_children on that
\* span; and each core span without a direct repo child gets one such failure.
C15_AsStated ==
    Validated =>
        /\ SingleBareCore(lib.graph) => OnlyCoreRuleFailure
        /\ CoreRulePerCoreSpan

\* C15, amended: the single core span must not be its own parent.
C15_CoreWithoutRepoChildren ==
    Validated =>
        /\ SingleBareCore(lib.graph) /\ lib.graph[1].parent_span_id # lib.graph[1].span_id
              => OnlyCoreRuleFailure
        /\ CoreRulePerCoreSpan

C15_Witness ==
    /\ Validated
    /\ SingleBareCore(lib.graph)
    /\ lib.graph[1].parent_span_id = "ghost"
    /\ OnlyCoreRuleFailure

\* C16: in a graph with a core span, every repo span without an agent child
\* gets a repo_must_have_agent_children failure, whatever its parent is.
C16_EveryRepoNeedsAgent ==
    Validated /\ CoreSpansOf(lib.graph) # {} =>
        \A r \in RepoSpansOf(lib.graph) :
            ~HasChildOfType(lib.graph, r, "agent") =>
                FailuresFor(lib.failures, "repo_must_have_agent_children", r.span_id) # {}

\* C17: in a graph with a core span, every non-core span whose parent_span_id
\* does not resolve in the graph (null and the empty string included) gets a
\* valid_parent_reference failure, and no core span gets one.
C17_EveryParentResolves ==
    Validated /\ CoreSpansOf(lib.graph) # {} =>
        \A s \in SpanSet(lib.graph) :
            /\ s.type # "core" /\ ~ParentResolves(lib.graph, s) =>
                  FailuresFor(lib.failures, "valid_parent_reference", s.span_id) # {}
            /\ s.type = "core" =>
                  FailuresFor(lib.failures, "valid_parent_reference", s.span_id) = {}

-----------------------------------------------------------------------------
(* Direct use of completeSpan, failSpan, attachArtifact and attachEvidence, *)
(* with the objects they work on.  A span is an object of the heap whose    *)
(* artifacts, evidence, failure_reasons and metadata fields hold the        *)
(* addresses of an array (or object) of the heap; `{...span, f: v}` makes a *)
(* new object that shares with span every field it does not set, and       *)
(* `[...xs, x]` makes a new array.                                          *)

\* The object a factory returns: four new containers, then the span.
newSpanAt(heap, span) ==
    LET a == Len(heap)
    IN  [ heap |-> heap \o << <<>>, <<>>, <<>>, <<>>,
                              [span EXCEPT !.artifacts = a + 1, !.evidence = a + 2,
                                           !.failure_reasons = a + 3,
                                           !.metadata = a + 4] >>,
          out |-> a + 5 ]

\* The span value held at address a.
Deref(heap, a) ==
    [heap[a] EXCEPT !.artifacts = heap[@], !.evidence = heap[@],
                    !.failure_reasons = heap[@], !.metadata = heap[@]]

\* { ...span, status: 'completed', end_time: now() }
completeSpanAt(heap, a, t) ==
    [ heap |-> Append(heap, [heap[a] EXCEPT !.status = "completed", !.end_time = t]),
      out |-> Len(heap) + 1 ]

\* failSpan pushing the reasons onto the array of the span it is given.
failSpanAt_pushOntoInput(heap, a, reasons, t) ==
    [ heap |-> Append([heap EXCEPT ![heap[a].failure_reasons] = @ \o reasons],
                      [heap[a] EXCEPT !.status = "failed", !.end_time = t]),
      out |-> Len(heap) + 1 ]

\* { ...span, status: 'failed', end_time: now(),
\*   failure_reasons: [...span.failure_reasons, ...reasons] }
failSpanAt(heap, a, reasons, t) ==
    [ heap |-> heap \o << heap[heap[a].failure_reasons] \o reasons,
                          [heap[a] EXCEPT !.status = "failed", !.end_time = t,
                                          !.failure_reasons = Len(heap) + 1] >>,
      out |-> Len(heap) + 2 ]

\* { ...span, artifacts: [...span.artifacts, fullArtifact] }
attachArtifactAt(heap, a, artifact, t) ==
    [ heap |-> heap \o << Append(heap[heap[a].artifacts],
                                 [artifact EXCEPT !.produced_at =
                                     IF Truthy(artifact.produced_at)
                                     THEN artifact.produced_at ELSE t]),
                          [heap[a] EXCEPT !.artifacts = Len(heap) + 1] >>,
      out |-> Len(heap) + 2 ]

\* { ...span, evidence: [...span.evidence, evidence] }
attachEvidenceAt(heap, a, evidence) ==
    [ heap |-> heap \o << Append(heap[heap[a].evidence], evidence),
                          [heap[a] EXCEPT !.evidence = Len(heap) + 1] >>,
      out |-> Len(heap) + 2 ]

ArtifactInputs ==
    { [ id |-> "art-1", type |-> "report", name |-> "Test Report",
        content |-> "data", produced_at |-> p ] : p \in { NULL, "T9" } }

EvidenceInputs ==
    { [ type |-> "id", value |-> "evidence-123", description |-> "Test evidence" ] }

FreshSpans ==
    { createCoreSpan(generateSpanId(1), now(0), "test-core", NULL),
      createRepoSpan(generateSpanId(1), now(0), "test-repo", "core-id"),
      createAgentSpan(generateSpanId(1), now(0), "test-agent", "test-op", "repo-id") }

SpanInit ==
    /\ nextId = 2
    /\ clock = 0
    /\ ctx = <<>>
    /\ inv = <<>>
    /\ drv = <<>>
    /\ \E span \in FreshSpans :
          LET made == newSpanAt(<<>>, span)
          IN  lib = [ use |-> "spans", heap |-> made.heap, objects |-> { made.out },
                      fresh |-> made.out, calls |-> 0,
                      last |-> [ op |-> "none", arg |-> made.out, out |-> made.out ] ]

CanCall == lib.use = "spans" /\ lib.calls < MaxCalls

\* The state after a call on the object at a that gave r.
called(op, a, r) ==
    [lib EXCEPT !.heap = r.heap, !.objects = @ \cup { r.out }, !.calls = @ + 1,
                !.last = [ op |-> op, arg |-> a, out |-> r.out ]]

CompleteSpan ==
    /\ CanCall
    /\ \E a \in lib.objects :
          lib' = called("completeSpan", a, completeSpanAt(lib.heap, a, now(clock)))
    /\ UNCHANGED <<nextId, clock, ctx, inv, drv>>

FailSpan ==
    /\ CanCall
    /\ \E a \in lib.objects, reasons \in { << "test error" >>, <<>> } :
          lib' = called("failSpan", a, failSpanAt(lib.heap, a, reasons, now(clock)))
    /\ UNCHANGED <<nextId, clock, ctx, inv, drv>>

AttachArtifact ==
    /\ CanCall
    /\ \E a \in lib.objects, artifact \in ArtifactInputs :
          lib' = called("attachArtifact", a,
                        attachArtifactAt(lib.heap, a, artifact, now(clock)))
    /\ UNCHANGED <<nextId, clock, ctx, inv, drv>>

AttachEvidence ==
    /\ CanCall
    /\ \E a \in lib.objects, evidence \in EvidenceInputs :
          lib' = called("attachEvidence", a, attachEvidenceAt(lib.heap, a, evidence))
    /\ UNCHANGED <<nextId, clock, ctx, inv, drv>>

\* Time passes between two calls.
SpanTick ==
    /\ CanCall
    /\ clock < MaxClock
    /\ clock' = clock + 1
    /\ UNCHANGED <<nextId, ctx, inv, drv, lib>>

SpanNext ==
    \/ CompleteSpan
    \/ FailSpan
    \/ AttachArtifact
    \/ AttachEvidence
    \/ SpanTick

SpanSpec == SpanInit /\ [][SpanNext]_vars

-----------------------------------------------------------------------------
(* Claims about the span transition functions.                              *)

\* The fields each function is defined to set.
SetBy(op) ==
    CASE op = "completeSpan" -> { "status", "end_time" }
      [] op = "failSpan" -> { "status", "end_time", "failure_reasons" }
      [] op = "attachArtifact" -> { "artifacts" }
      [] op = "attachEvidence" -> { "evidence" }
      [] OTHER -> {}

\* C19: a call of completeSpan, failSpan, attachArtifact or attachEvidence
\* leaves the span it is given (and every other span) with the value it had,
\* a fresh span still running without end_time, reasons, artifacts and
\* evidence; the span it returns is another object, equal to the given one
\* in every field the function is not defined to set.
C19_InputUnchanged ==
    [][ lib.use = "spans" /\ lib'.calls = lib.calls + 1 =>
          LET call == lib'.last
              before == Deref(lib.heap, call.arg)
              returned == Deref(lib'.heap, call.out)
              fresh == Deref(lib'.heap, lib.fresh)
          IN  /\ \A a \in lib.objects : Deref(lib'.heap, a) = Deref(lib.heap, a)
              /\ fresh.status = "running" /\ fresh.end_time = NULL
              /\ fresh.failure_reasons = <<>> /\ fresh.artifacts = <<>>
              /\ fresh.evidence = <<>>
              /\ call.out \notin lib.objects
              /\ DOMAIN returned = DOMAIN before
              /\ \A f \in DOMAIN before \ SetBy(call.op) : returned[f] = before[f]
      ]_vars

C19_Witness ==
    /\ lib.use = "spans"
    /\ lib.calls = 2
    /\ lib.last.op = "failSpan"
    /\ lib.last.arg = lib.fresh
    /\ Cardinality(lib.objects) = 3
    /\ Deref(lib.heap, lib.last.out).failure_reasons = << "test error" >>
    /\ Deref(lib.heap, lib.fresh).failure_reasons = <<>>
    /\ Deref(lib.heap, lib.fresh).status = "running"
    /\ \E a \in lib.objects : Deref(lib.heap, a).status = "completed"

-----------------------------------------------------------------------------
(* Two wrapper invocations in flight at once: both promises are created    *)
(* before either settles, and the event loop runs their continuations in   *)
(* any order.                                                              *)

\* The collaborators of concurrent callers: one whose fn resolves, one whose
\* fn throws, told apart by their names.
ParCollaborators ==
    { [ repoName |-> "analytics", agentName |-> "analytics-agent",
        operation |-> "get_metrics", fn |-> Resolves("metrics") ],
      [ repoName |-> "marketplace", agentName |-> "marketplace-agent",
        operation |-> "list_artifacts", fn |-> ThrowsError("Connection refused") ] }

ParInvocations ==
    { Invocation("single", "ecosystem-core", NULL, << repo >>, "none") :
          repo \in ParCollaborators }
    \cup
    { Invocation("multi", "ecosystem-core", NULL, repos, "join") :
          repos \in SeqUpTo(ParCollaborators, MaxParRepos) }

ParInit ==
    /\ nextId = 1
    /\ clock = 0
    /\ ctx = <<>>
    /\ drv = <<>>
    /\ lib = NoCall
    /\ \E first \in ParInvocations, second \in ParInvocations :
          inv = << first, second >>

\* The clock stands still: no claim about two invocations reads a time.
ParNext ==
    \/ \E i \in DOMAIN inv : SingleStart(i)
    \/ \E i \in DOMAIN inv : SingleFnResolved(i)
    \/ \E i \in DOMAIN inv : SingleFnThrew(i)
    \/ \E i \in DOMAIN inv : MultiStart(i)
    \/ \E i \in DOMAIN inv : MultiNextRepo(i)
    \/ \E i \in DOMAIN inv : MultiFnResolved(i)
    \/ \E i \in DOMAIN inv : MultiFnThrew(i)
    \/ \E i \in DOMAIN inv : MultiAggregate(i)
    \/ \E i \in DOMAIN inv : WrapperFinalize(i)

ParSpec == ParInit /\ [][ParNext]_vars

\* The span ids of context h.
IdsIn(h) == { ctx[h].spans[k].span_id : k \in 1..Len(ctx[h].spans) }

\* The graph is the core span followed, for each collaborator of invocation i
\* in turn, by its repo span and its agent span, each with the status the
\* collaborator's own fn gives it.
OwnSpansOnly(i, g) ==
    /\ Len(g) = 1 + 2 * Len(inv[i].repos)
    /\ g[1].type = "core"
    /\ \A k \in 1..Len(inv[i].repos) :
          /\ g[2 * k].type = "repo"
          /\ g[2 * k].repo_name = inv[i].repos[k].repoName
          /\ g[2 * k].parent_span_id = g[1].span_id
          /\ g[2 * k + 1].type = "agent"
          /\ g[2 * k + 1].agent_name = inv[i].repos[k].agentName
          /\ g[2 * k + 1].parent_span_id = g[2 * k].span_id
          /\ g[2 * k].status = IF k \in Throwing(i) THEN "failed" ELSE "completed"
          /\ g[2 * k + 1].status = g[2 * k].status

\* C21: of two invocations in flight at once, each has a context of its own;
\* the graph each returns holds its own 1 + 2n spans and no span of the
\* other; its success depends on its own collaborators only.
C21_OwnContext ==
    \A i \in DOMAIN inv :
        /\ \A j \in DOMAIN inv :
              i # j /\ inv[i].ctx # 0 /\ inv[j].ctx # 0 =>
                  /\ inv[i].ctx # inv[j].ctx
                  /\ IdsIn(inv[i].ctx) \cap IdsIn(inv[j].ctx) = {}
        /\ Returned(i) =>
              /\ OwnSpansOnly(i, GraphOf(inv[i].ret))
              /\ inv[i].ret.core_span_id = GraphOf(inv[i].ret)[1].span_id
              /\ inv[i].ret.success =
                     (Throwing(i) = {} /\ Len(inv[i].repos) > 0)

\* Both invocations were started before either opened a repo span, they
\* took turns, and one succeeded while the other failed.
C21_Witness ==
    /\ Len(inv) = 2
    /\ IsMulti(1) /\ IsMulti(2)
    /\ Returned(1) /\ Returned(2)
    /\ Len(inv[1].repos) = 2 /\ Len(inv[2].repos) = 2
    /\ GraphOf(inv[1].ret)[1].span_id = generateSpanId(1)
    /\ GraphOf(inv[2].ret)[1].span_id = generateSpanId(2)
    /\ GraphOf(inv[1].ret)[2].span_id = generateSpanId(3)
    /\ GraphOf(inv[2].ret)[2].span_id = generateSpanId(5)
    /\ GraphOf(inv[1].ret)[4].span_id = generateSpanId(7)
    /\ inv[1].ret.success /\ ~inv[2].ret.success

-----------------------------------------------------------------------------
(* JSON.stringify and JSON.parse on a CoreExecutionResult.  A JSON text is *)
(* kept as its syntax tree: a node is null, true, false, a string, an      *)
(* array of nodes or an object of named nodes.  stringify leaves out the   *)
(* members of an object whose value is undefined; parse gives no member    *)
(* for a name the text does not hold.                                      *)

UNDEFINED == "<undefined>"

\* obj[key] in JavaScript
Get(obj, key) == IF key \in DOMAIN obj THEN obj[key] ELSE UNDEFINED

jsonString(v) == [ j |-> "string", s |-> v ]

\* stringifyNullable writing null the way it writes undefined.
stringifyNullable_asUndefined(v) ==
    IF v = NULL THEN [ j |-> "undefined" ]
    ELSE IF v = UNDEFINED THEN [ j |-> "undefined" ] ELSE jsonString(v)

\* A value of type string | null (or undefined).
stringifyNullable(v) ==
    IF v = NULL THEN [ j |-> "null" ]
    ELSE IF v = UNDEFINED THEN [ j |-> "undefined" ] ELSE jsonString(v)

stringifyBoolean(b) == IF b THEN [ j |-> "true" ] ELSE [ j |-> "false" ]

\* An object, from the nodes of its properties.
jsonObject(members) ==
    [ j |-> "object",
      members |-> [ k \in { f \in DOMAIN members : members[f].j # "undefined" }
                      |-> members[k] ] ]

jsonArray(items) == [ j |-> "array", items |-> items ]

stringifyRecord(r) == jsonObject([ f \in DOMAIN r |-> stringifyNullable(r[f]) ])

stringifyStrings(xs) == jsonArray([ k \in 1..Len(xs) |-> jsonString(xs[k]) ])

stringifyRecords(xs) == jsonArray([ k \in 1..Len(xs) |-> stringifyRecord(xs[k]) ])

stringifySpan(span) ==
    jsonObject([ f \in DOMAIN span |->
        CASE f \in { "artifacts", "evidence" } -> stringifyRecords(span[f])
          [] f = "failure_reasons" -> stringifyStrings(span[f])
          [] f = "metadata" -> jsonObject(<<>>)
          [] OTHER -> stringifyNullable(span[f]) ])

\* JSON.stringify(result), spans being what result.execution_graph.spans holds
JSON_stringify(result, spans) ==
    jsonObject(
        [ success |-> stringifyBoolean(result.success),
          core_span_id |-> jsonString(result.core_span_id),
          execution_graph |->
              jsonObject([ spans |-> jsonArray([ k \in 1..Len(spans) |->
                                                   stringifySpan(spans[k]) ]) ]),
          validation_failures |-> stringifyRecords(result.validation_failures),
          failure_reasons |-> stringifyStrings(result.failure_reasons),
          result |-> stringifyNullable(result.result) ])

parseScalar(node) ==
    CASE node.j = "null" -> NULL
      [] node.j = "string" -> node.s
      [] OTHER -> UNDEFINED

parseRecord(node) == [ f \in DOMAIN node.members |-> parseScalar(node.members[f]) ]

parseSpan(node) ==
    [ f \in DOMAIN node.members |->
        CASE f \in { "artifacts", "evidence" } ->
               [ k \in 1..Len(node.members[f].items) |->
                   parseRecord(node.members[f].items[k]) ]
          [] f = "failure_reasons" ->
               [ k \in 1..Len(node.members[f].items) |->
                   parseScalar(node.members[f].items[k]) ]
          [] f = "metadata" -> <<>>
          [] OTHER -> parseScalar(node.members[f]) ]

\* JSON.parse(text)
JSON_parse(text) ==
    [ f \in DOMAIN text.members |->
        CASE f = "success" -> text.members[f].j = "true"
          [] f = "execution_graph" ->
               [ spans |->
                   [ k \in 1..Len(text.members[f].members.spans.items) |->
                       parseSpan(text.members[f].members.spans.items[k]) ] ]
          [] f = "validation_failures" ->
               [ k \in 1..Len(text.members[f].items) |->
                   parseRecord(text.members[f].items[k]) ]
          [] f = "failure_reasons" ->
               [ k \in 1..Len(text.members[f].items) |->
                   parseScalar(text.members[f].items[k]) ]
          [] OTHER -> parseScalar(text.members[f]) ]

\* const serialized = JSON.stringify(result);
\* const deserialized = JSON.parse(serialized);
RoundTrip(i) ==
    /\ inv[i].pc = "returned"
    /\ lib.use = "none"
    /\ LET serialized == JSON_stringify(inv[i].ret, GraphOf(inv[i].ret))
       IN  lib' = [ use |-> "json", of |-> i, serialized |-> serialized,
                    deserialized |-> JSON_parse(serialized) ]
    /\ UNCHANGED <<nextId, clock, ctx, inv, drv>>

JsonNext ==
    \/ Next
    \/ \E i \in DOMAIN inv : RoundTrip(i)

JsonSpec == Init /\ [][JsonNext]_vars

-----------------------------------------------------------------------------
(* Further properties of the wrappers, under Spec *)

SingleThrew(i) == IsSingle(i) /\ Returned(i) /\ inv[i].repos[1].fn.kind = "throw"

\* C23 as stated: when fn throws, the core span of the graph executeWithSpans
\* returns is failed and one of its failure reasons is
\* "1 child span(s) failed".
C23_AsStated ==
    \A i \in DOMAIN inv :
        SingleThrew(i) =>
            LET core == GraphOf(inv[i].ret)[1]
            IN  /\ core.status = "failed"
                /\ \E k \in 1..Len(core.failure_reasons) :
                      core.failure_reasons[k] = "1 child span(s) failed"

\* C23, amended: the reason reads "2 child span(s) failed", the failed agent
\* span and the failed repo span both being counted, and it is the core
\* span's only reason.
C23_TwoChildSpansFailed ==
    \A i \in DOMAIN inv :
        SingleThrew(i) =>
            LET core == GraphOf(inv[i].ret)[1]
            IN  /\ core.status = "failed"
                /\ core.failure_reasons = << "2 child span(s) failed" >>
                /\ inv[i].ret.failure_reasons = core.failure_reasons

C23_Witness ==
    \E i \in DOMAIN inv :
        /\ SingleThrew(i)
        /\ inv[i].repos[1].fn = ThrowsError("Connection refused")
        /\ GraphOf(inv[i].ret)[1].failure_reasons = << "2 child span(s) failed" >>
        /\ FailedNonCore(GraphOf(inv[i].ret)) = 2

\* Every collaborator of multi invocation i resolves and its aggregator throws.
AggregatorThrows(i) ==
    IsMulti(i) /\ inv[i].aggregator = "throws" /\ Throwing(i) = {}

-----------------------------------------------------------------------------
(* Further properties of the validator, under ValSpec *)

EmptyEntries(xs, field) == { j \in 1..Len(xs) : xs[j][field] = "" }
BlankEntries(xs, field) == { j \in 1..Len(xs) : trim(xs[j][field]) = "" }

\* C25: in a graph with a core span every rule is applied to every span:
\* each span gets one evidence_must_be_verifiable failure per Evidence entry
\* with an empty value (and per whitespace-only one), one
\* artifact_must_have_id failure per Artifact with an empty id, one
\* no_self_reference failure if it is its own parent, and these come on top
\* of the core_must_have_repo_children failures.
C25_AllViolationsReported ==
    Validated /\ CoreSpansOf(lib.graph) # {} =>
        /\ \A s \in SpanSet(lib.graph) :
              LET evidenceCount ==
                      Cardinality(FailuresFor(lib.failures,
                                              "evidence_must_be_verifiable", s.span_id))
                  artifactCount ==
                      Cardinality(FailuresFor(lib.failures,
                                              "artifact_must_have_id", s.span_id))
                  selfCount ==
                      Cardinality(FailuresFor(lib.failures,
                                              "no_self_reference", s.span_id))
              IN  /\ evidenceCount >= Cardinality(EmptyEntries(s.evidence, "value"))
                  /\ evidenceCount = Cardinality(BlankEntries(s.evidence, "value"))
                  /\ artifactCount >= Cardinality(EmptyEntries(s.artifacts, "id"))
                  /\ artifactCount = Cardinality(BlankEntries(s.artifacts, "id"))
                  /\ selfCount = IF s.parent_span_id = s.span_id THEN 1 ELSE 0
        /\ CoreRulePerCoreSpan

\* A core span that is its own parent, has no repo child and carries two
\* empty Evidence values: four failures.
C25_Witness ==
    /\ Validated
    /\ \E s \in CoreSpansOf(lib.graph) :
          /\ s.parent_span_id = s.span_id
          /\ Cardinality(EmptyEntries(s.evidence, "value")) = 2
          /\ FailuresFor(lib.failures, "core_must_have_repo_children", s.span_id) # {}
          /\ FailuresFor(lib.failures, "no_self_reference", s.span_id) # {}
          /\ Cardinality(FailuresFor(lib.failures,
                                     "evidence_must_be_verifiable", s.span_id)) = 2
    /\ Len(lib.failures) >= 4

-----------------------------------------------------------------------------
(* Further properties of the context, under CtxSpec *)

\* The positions of old whose entry differs in new.
Replaced(old, new) == { k \in 1..Len(old) : new[k] # old[k] }

\* C26: the span collection of a context only grows; an entry keeps its
\* span_id, parent_span_id, type and name for ever; one operation replaces at
\* most one entry, the first with the id it was given, or none; an operation
\* that appends replaces nothing; startRepoSpan and startAgentSpan append one
\* running span, ingestRepoSpans appends the spans it was given, unchanged
\* and in order.
C26_AppendOnly ==
    [][ \A h \in DOMAIN ctx :
          LET old == ctx[h].spans
              new == ctx'[h].spans
          IN  /\ Len(new) >= Len(old)
              /\ \A k \in 1..Len(old) :
                    /\ new[k].span_id = old[k].span_id
                    /\ new[k].parent_span_id = old[k].parent_span_id
                    /\ new[k].type = old[k].type
                    /\ new[k].name = old[k].name
              /\ Cardinality(Replaced(old, new)) <= 1
              /\ \A k \in Replaced(old, new) :
                    \A j \in 1..(k - 1) : old[j].span_id # old[k].span_id
              /\ Len(new) > Len(old) => Replaced(old, new) = {}
              /\ nextId' = nextId + 1 =>
                    /\ Len(new) = Len(old) + 1
                    /\ new[Len(new)].span_id = generateSpanId(nextId)
                    /\ new[Len(new)].status = "running"
              /\ Len(new) > Len(old) /\ nextId' # nextId + 1 =>
                    new = old \o drv'[h].repoSpans
      ]_vars

\* A completed repo span and its agent span were ingested, the repo span
\* was then failed by id, and a third operation appended nothing.
C26_Witness ==
    \E h \in DOMAIN ctx :
        /\ drv[h].ops = 3
        /\ Len(drv[h].repoSpans) = 2
        /\ Len(ctx[h].spans) = 3
        /\ ctx[h].spans[2].span_id = drv[h].repoSpans[1].span_id
        /\ ctx[h].spans[2].status = "failed"
        /\ drv[h].repoSpans[1].status = "completed"
        /\ ctx[h].spans[3] = drv[h].repoSpans[2]
        /\ ctx[h].spans[1].status = "running"

\* C28: when finalize returns success = true, no span of the graph it
\* returns is running.
C28_SuccessMeansAllTerminal ==
    [][ \A h \in DOMAIN drv :
          FinalizeStep(h) /\ FinalizeResult(h).success =>
              \A k \in 1..Len(ctx'[h].spans) : ctx'[h].spans[k].status # "running"
      ]_vars

\* C29: what a result returned by finalize shows through its
\* execution_graph (the spans, their statuses, the core span's
\* failure_reasons) is not changed by later operations on the context.
C29_ResultIsStable ==
    [][ \A h \in DOMAIN drv :
          \A n \in 1..Len(drv[h].returned) :
              LET seen == ctx[drv[h].returned[n].execution_graph].spans
                  seenAfter == ctx'[drv'[h].returned[n].execution_graph].spans
              IN  /\ Len(seenAfter) = Len(seen)
                  /\ \A k \in 1..Len(seen) :
                        /\ seenAfter[k].span_id = seen[k].span_id
                        /\ seenAfter[k].status = seen[k].status
                  /\ seenAfter[1].failure_reasons = seen[1].failure_reasons
      ]_vars

-----------------------------------------------------------------------------
(* The hierarchy a graph without failures has, under ValSpec *)

\* C27: in a graph for which validateExecutionGraph returns no failure,
\* every agent span has a repo span of the graph as its parent and every
\* repo span has a core span of the graph as its parent.
C27_ValidMeansLayered ==
    Validated /\ Len(lib.failures) = 0 =>
        \A s \in SpanSet(lib.graph) :
            /\ s.type = "agent" =>
                  \E p \in RepoSpansOf(lib.graph) : p.span_id = s.parent_span_id
            /\ s.type = "repo" =>
                  \E p \in CoreSpansOf(lib.graph) : p.span_id = s.parent_span_id

-----------------------------------------------------------------------------
(* Termination of the wrappers.  A caller-supplied fn may also return a    *)
(* promise that never settles.  Whatever is not an await of such a promise *)
(* runs to its end: a wrapper runs synchronously up to its next await, and *)
(* the event loop resumes it once the awaited promise has settled.         *)

NeverSettles == [ kind |-> "pending", value |-> NULL, isError |-> FALSE, message |-> NULL ]

LiveCollaborators ==
    { [ repoName |-> "analytics", agentName |-> "analytics-agent",
        operation |-> "get_metrics", fn |-> Resolves("metrics") ],
      [ repoName |-> "marketplace", agentName |-> "marketplace-agent",
        operation |-> "list_artifacts", fn |-> ThrowsError("Connection refused") ],
      [ repoName |-> "benchmark", agentName |-> "benchmark-agent",
        operation |-> "list_benchmarks", fn |-> NeverSettles ] }

LiveInit ==
    /\ nextId = 1
    /\ clock = 0
    /\ ctx = <<>>
    /\ drv = <<>>
    /\ lib = NoCall
    /\ \E coreName \in CoreNames, parentSpanId \in ParentSpanIds :
          \/ \E repo \in LiveCollaborators :
                inv = << Invocation("single", coreName, parentSpanId,
                                    << repo >>, "none") >>
          \/ \E repos \in SeqUpTo(LiveCollaborators, MaxRepos),
                aggregator \in Aggregators :
                inv = << Invocation("multi", coreName, parentSpanId,
                                    repos, aggregator) >>

\* A step of the invocation itself (time passing is no such step).
WrapperStep ==
    \/ SingleStart(1)
    \/ SingleFnResolved(1)
    \/ SingleFnThrew(1)
    \/ MultiStart(1)
    \/ MultiNextRepo(1)
    \/ MultiFnResolved(1)
    \/ MultiFnThrew(1)
    \/ MultiAggregate(1)
    \/ WrapperFinalize(1)

LiveNext == Next

\* Where the invocation stands; every step of it changes this.
position == << inv[1].pc, inv[1].idx >>

LiveSpec == LiveInit /\ [][LiveNext]_vars /\ WF_position(WrapperStep)

\* The entries of the invocation whose fn never settles.
Pending == { k \in DOMAIN inv[1].repos : inv[1].repos[k].fn.kind = "pending" }

\* The first of them (0 if there is none): the loop does not get past it.
FirstPending ==
    IF Pending = {} THEN 0 ELSE CHOOSE k \in Pending : \A j \in Pending : k <= j

\* C30: an invocation all of whose fns settle eventually returns; it calls
\* finalize once, after every collaborator was called once and settled, and
\* every span of the graph it returns is completed or failed; once it has
\* returned nothing changes any more.  An invocation one of whose fns never
\* settles ends up waiting at the await of the first such fn for ever and
\* never reaches finalize.
C30_Terminates ==
    /\ (Pending = {}) => <>(inv[1].pc = "returned")
    /\ [](inv[1].pc = "returned" =>
            /\ \A k \in DOMAIN inv[1].repos :
                  inv[1].calls[k] = 1 /\ inv[1].settles[k] = 1
            /\ \A k \in 1..Len(GraphOf(inv[1].ret)) :
                  GraphOf(inv[1].ret)[k].status \in Terminal)
    /\ [][inv[1].pc = "returned" =>
              /\ inv'[1].pc = "returned"
              /\ inv'[1].ret = inv[1].ret
              /\ ctx' = ctx]_vars
    /\ (Pending # {}) =>
            /\ [](inv[1].pc \notin { "finalize", "returned", "threw" })
            /\ <>[](inv[1].pc = "await" /\ inv[1].idx = FirstPending)

C30_Witness ==
    /\ inv[1].pc = "returned"
    /\ IsMulti(1)
    /\ Len(inv[1].repos) = 3
    /\ Throwing(1) = { 2 }
    /\ inv[1].settles = << 1, 1, 1 >>
    /\ \A k \in 1..7 : GraphOf(inv[1].ret)[k].status \in Terminal

====
